---- MODULE Spec2Model ----
(***************************************************************************)
(* State-machine model of SafeBench's risk-aware SAC agent                 *)
(* (safebench/agent/rl/sac.py), of the replay buffer it trains from        *)
(* (safebench/gym_carla/replay_buffer.py), of three scenarios              *)
(* (safebench/scenario/scenario_definition/LC) and of the evaluation loop  *)
(* of the runner (safebench/carla_runner.py).                              *)
(*                                                                         *)
(* Network parameters are abstracted to small integers (one integer per    *)
(* parameter group), network outputs to fixed functions of the group's     *)
(* parameter and of the input, and real numbers to fixed-point integers    *)
(* (risk values in tenths).                                                *)
(***************************************************************************)
EXTENDS Integers, Sequences, FiniteSets, TLC

(***************************************************************************)
(* Bounds of the model.                                                    *)
(***************************************************************************)
MaxScenario == 2
MaxCapacity == 3
MaxStored == 3
MaxStoreBatch == 2
MaxBatchSize == 2
MaxSeed == 2
MaxFill == 1
MaxObs == 1
MaxN == 2
MaxStartTraining == 2
MaxUpdateIteration == 2
MaxTrain == 2
MaxEpisode == 1
TauScale == 2
MaxThreshold == 2
MaxValue == 1
MaxRisk == 2
GammaDen == 2
MaxQ == 4
MaxSpawnCalls == 3
MaxLanes == 2
RawDen == 2
MaxRaw == 3
MaxDistance == 7
MaxLeadCalls == 3
MaxLoader == 3
MaxEnvSteps == 2

VARIABLES
    \* ---- ReplayBuffer (replay_buffer.py) ----
    num_scenario,             \* self.num_scenario
    buffer_capacity,          \* self.buffer_capacity
    buffer_mode,              \* self.mode of the buffer
    buffer_len,               \* self.buffer_len
    buffer_ego_actions,       \* per-scenario lists, indexed 0..num_scenario-1
    buffer_scenario_actions,
    buffer_obs,
    buffer_next_obs,
    buffer_rewards,
    buffer_dones,
    batch,                    \* the dict returned by the last sample call
    rb_exc,                   \* exception raised by the last buffer call
    last_batch_size,          \* history: the batch_size of the last sample call
    next_tid,                 \* history: number of transitions handed to store
    stored,                   \* history: <<scenario id, transition id>> in store order
    rb_kind,                  \* which buffer class the trainer hands to SAC.train
    rb_exc_site,              \* history: the call that raised rb_exc
    \* ---- SAC (sac.py) ----
    buffer_start_training,    \* config['buffer_start_training']
    batch_size,               \* config['batch_size']
    update_iteration,         \* config['update_iteration']
    tau,                      \* config['tau'], in units of 1/TauScale
    model_id,                 \* config['model_id']
    continue_episode,         \* self.continue_episode
    policy_net,               \* the parameters of each network
    value_net,
    Q_net,
    Target_value_net,
    value_risk_net,
    policy_recovery_net,
    Q_risk_net,
    Target_value_risk_net,
    files,                    \* the files below self.model_path
    last_call,                \* history: the last call, on the buffer or the agent
    agent_exc,                \* exception raised by the last SAC call
    ga_task_action,           \* first value returned by the last get_action
    ga_action,                \* second value returned by the last get_action
    ga_risk,                  \* history: risk estimate of the last get_action
    ga_recovery,              \* history: recovery sample of the last get_action
    ga_call,                  \* history: the arguments of the last get_action
    sample_calls,             \* history: replay_buffer.sample calls of the last train
    train_calls,              \* history: number of train calls so far
    warned,                   \* history: the last load_model logged 'No model found'
    saved_at,                 \* history: the parameters at the last save_model(e)
    op_episode,               \* history: the episode argument of the last save/load
    pre_call,                 \* history: the state in which the last SAC call began
    config,                   \* the config dict handed to SAC.__init__
    mode,                     \* self.mode
    training,                 \* the training flag (nn.Module.training) of each network
    op_mode,                  \* history: the argument of the last set_mode
    mode_msg,                 \* history: the message of the last set_mode's exception
    train_log,                \* history: what the last train call did, in order
    critic_in,                \* one sampled transition and the network outputs on it
    critic_out,               \* the targets train computes from critic_in
    \* ---- DynamicObjectCrossing (object_crash_vehicle.py) ----
    spawn_attempted,          \* self._spawn_attempted
    start_distance,           \* _start_distance of initialize_actors, in tenths
    transform,                \* self.transform: the start distance of the placement found
    spawn_pc,                 \* where initialize_actors stands
    spawn_failed,             \* history: failed placements of this object so far
    spawn_calls,              \* history: initialize_actors calls so far
    \* ---- OtherLeadingVehicle (other_leading_vehicle.py) ----
    need_decelerate,          \* self.need_decelerate
    other_actors,             \* len(self.other_actors)
    other_actor_speed,        \* self.other_actor_speed
    go_straight,              \* history: the speed commanded to each actor by the last call
    cur_distance,             \* history: cur_distance of the last update_behavior
    lead_exc,                 \* history: the exception of the last update_behavior
    lead_calls,               \* history: update_behavior calls so far
    \* ---- convert_actions of the three scenarios ----
    scenario_init_action,     \* the raw action vector, in units of 1/RawDen
    actions,                  \* self.actions, in units of 1/(2*RawDen)
    scenario_class,           \* the class whose convert_actions ran last
    \* ---- CarlaRunner.eval (carla_runner.py) ----
    data_loader,              \* len(data_loader)
    eval_pc,                  \* where eval stands
    num_sampled_scenario,     \* num_sampled_scenario of the current batch
    env_running,              \* the scenario ids of the batch that are not done
    rewards_list,             \* rewards_list of the current batch
    env_rewards,              \* history: the rewards the env returned, per scenario id
    env_calls                 \* history: the env calls made for the current batch

rbVars == <<num_scenario, buffer_capacity, buffer_mode, buffer_len,
            buffer_ego_actions, buffer_scenario_actions, buffer_obs,
            buffer_next_obs, buffer_rewards, buffer_dones,
            batch, rb_exc, last_batch_size, next_tid, stored, rb_kind,
            rb_exc_site>>

cfgVars == <<buffer_start_training, batch_size, update_iteration, tau, model_id>>

liveVars == <<policy_net, value_net, Q_net, value_risk_net,
              policy_recovery_net, Q_risk_net>>

targetVars == <<Target_value_net, Target_value_risk_net>>

gaVars == <<ga_task_action, ga_action, ga_risk, ga_recovery, ga_call>>

modeVars == <<mode, training, op_mode, mode_msg>>

criticVars == <<critic_in, critic_out>>

agentVars == <<cfgVars, liveVars, targetVars, continue_episode, files,
               agent_exc, gaVars, sample_calls, train_calls, warned,
               saved_at, op_episode, pre_call, config, modeVars, train_log,
               criticVars>>

spawnVars == <<spawn_attempted, start_distance, transform, spawn_pc,
               spawn_failed, spawn_calls>>

leadVars == <<need_decelerate, other_actors, other_actor_speed, go_straight,
              cur_distance, lead_exc, lead_calls>>

convertVars == <<scenario_init_action, actions, scenario_class>>

evalVars == <<data_loader, eval_pc, num_sampled_scenario, env_running,
              rewards_list, env_rewards, env_calls>>

scnVars == <<spawnVars, leadVars, convertVars, evalVars>>

vars == <<rbVars, agentVars, scnVars, last_call>>

(***************************************************************************)
(* Small helpers.                                                          *)
(***************************************************************************)
Max2(a, b) == IF a >= b THEN a ELSE b

Min2(a, b) == IF a <= b THEN a ELSE b

\* Python's seq[start:] for 0 <= start.
SliceFrom(seq, start) == SubSeq(seq, start + 1, Len(seq))

\* Python list indexing: lst[i] is defined for -len <= i < len, a negative
\* index counts from the end; anything else raises IndexError.
ValidIndex(i, len) == (0 - len) <= i /\ i < len
ListIndex(i, len) == IF i < 0 THEN i + len ELSE i

\* The six components of a transition.  The buffer never inspects the data
\* it stores, so a component is the pair of the transition's id and its kind.
Comp(tid, kind) == <<tid, kind>>

Scenarios == 0 .. (num_scenario - 1)

(***************************************************************************)
(* ReplayBuffer.__init__                                                   *)
(***************************************************************************)
EmptyLists(n) == [s \in 0 .. (n - 1) |-> <<>>]

\* No batch returned yet: a dict without keys.
NoBatch == [k \in {} |-> <<>>]

InitBuffer(n, cap, m) ==
    /\ num_scenario = n
    /\ buffer_capacity = cap
    /\ buffer_mode = m
    /\ buffer_len = 0
    /\ buffer_ego_actions = EmptyLists(n)
    /\ buffer_scenario_actions = EmptyLists(n)
    /\ buffer_obs = EmptyLists(n)
    /\ buffer_next_obs = EmptyLists(n)
    /\ buffer_rewards = EmptyLists(n)
    /\ buffer_dones = EmptyLists(n)
    /\ batch = NoBatch
    /\ rb_exc = "none"
    /\ rb_exc_site = "none"
    /\ last_batch_size = 0
    /\ next_tid = 0
    /\ stored = <<>>

(***************************************************************************)
(* ReplayBuffer.store                                                      *)
(***************************************************************************)
CurrentLists ==
    [ego |-> buffer_ego_actions, scen |-> buffer_scenario_actions,
     obs |-> buffer_obs, nobs |-> buffer_next_obs,
     rew |-> buffer_rewards, done |-> buffer_dones]

\* A store that files the transition under the neighbouring scenario.
StoreTargetShifted(sid, n) == (ListIndex(sid, n) + 1) % n

\* Where the transition of scenario id sid goes: the list sid indexes.
StoreTarget(sid, n) == ListIndex(sid, n)

\* A store that drops the oldest transition of a list that is as long as
\* the sampling window.
AppendEvicting(list, x) ==
    IF Len(list) > 0 /\ Len(list) >= buffer_capacity \div num_scenario
    THEN Append(Tail(list), x)
    ELSE Append(list, x)

StoreOneEvicting(lists, sid, tid) ==
    LET k == ListIndex(sid, num_scenario) IN
    [ego  |-> [lists.ego  EXCEPT ![k] = AppendEvicting(@, Comp(tid, "ego_action"))],
     scen |-> [lists.scen EXCEPT ![k] = AppendEvicting(@, Comp(tid, "scenario_action"))],
     obs  |-> [lists.obs  EXCEPT ![k] = AppendEvicting(@, Comp(tid, "obs"))],
     nobs |-> [lists.nobs EXCEPT ![k] = AppendEvicting(@, Comp(tid, "next_obs"))],
     rew  |-> [lists.rew  EXCEPT ![k] = AppendEvicting(@, Comp(tid, "reward"))],
     done |-> [lists.done EXCEPT ![k] = AppendEvicting(@, Comp(tid, "done"))]]

\* One pass of the loop body (lines 47-53) for the transition tid of scenario sid.
StoreOne(lists, sid, tid) ==
    LET k == StoreTarget(sid, num_scenario) IN
    [ego  |-> [lists.ego  EXCEPT ![k] = Append(@, Comp(tid, "ego_action"))],
     scen |-> [lists.scen EXCEPT ![k] = Append(@, Comp(tid, "scenario_action"))],
     obs  |-> [lists.obs  EXCEPT ![k] = Append(@, Comp(tid, "obs"))],
     nobs |-> [lists.nobs EXCEPT ![k] = Append(@, Comp(tid, "next_obs"))],
     rew  |-> [lists.rew  EXCEPT ![k] = Append(@, Comp(tid, "reward"))],
     done |-> [lists.done EXCEPT ![k] = Append(@, Comp(tid, "done"))]]

\* The loop of lines 46-53 from position i of infos; the transition at
\* position i has id tid0 + i.  An invalid scenario id raises IndexError at
\* line 48 and leaves what the earlier passes appended.
RECURSIVE StoreLoop(_, _, _, _)
StoreLoop(lists, infos, i, tid0) ==
    IF i > Len(infos) THEN [lists |-> lists, exc |-> "none"]
    ELSE IF ~ValidIndex(infos[i], num_scenario)
         THEN [lists |-> lists, exc |-> "IndexError"]
         ELSE StoreLoop(StoreOne(lists, infos[i], tid0 + i), infos, i + 1, tid0)

\* History only: the part of infos before the first id that is no scenario.
RECURSIVE AcceptedPrefix(_, _)
AcceptedPrefix(infos, i) ==
    IF i > Len(infos) \/ infos[i] \notin Scenarios THEN <<>>
    ELSE <<i>> \o AcceptedPrefix(infos, i + 1)

\* History only: the statement an exception of store or of sample comes
\* from.  store can only fail indexing a list with the scenario id, sample
\* only in the index draw of line 84.
RaiseSite(call, exc) ==
    IF exc = "none" THEN "none"
    ELSE IF call = "store" THEN "self.buffer_ego_actions[sid]"
    ELSE "np.random.randint"

Store(infos) ==
    LET r == StoreLoop(CurrentLists, infos, 1, next_tid)
        acc == AcceptedPrefix(infos, 1)
    IN  /\ buffer_len' = buffer_len + Len(infos)
        /\ buffer_ego_actions' = r.lists.ego
        /\ buffer_scenario_actions' = r.lists.scen
        /\ buffer_obs' = r.lists.obs
        /\ buffer_next_obs' = r.lists.nobs
        /\ buffer_rewards' = r.lists.rew
        /\ buffer_dones' = r.lists.done
        /\ rb_exc' = r.exc
        /\ rb_exc_site' = RaiseSite("store", r.exc)
        /\ last_call' = "store"
        /\ next_tid' = next_tid + Len(infos)
        /\ stored' = stored \o [j \in 1 .. Len(acc) |-> <<infos[acc[j]], next_tid + acc[j]>>]
        /\ UNCHANGED <<num_scenario, buffer_capacity, buffer_mode, batch,
                       last_batch_size, rb_kind>>

\* The scenario ids a caller may hand over: the ids of the scenarios, and
\* num_scenario itself, which is no valid index.
StoreInputs ==
    UNION {[1 .. n -> 0 .. num_scenario] : n \in 1 .. MaxStoreBatch}

StoreAction ==
    \E infos \in StoreInputs :
        /\ next_tid + Len(infos) <= MaxStored
        /\ Store(infos)
        /\ UNCHANGED <<agentVars, scnVars>>

\* The environment loop of a single run: one transition per step, each of
\* a scenario of the batch.
StoreStep ==
    \E sid \in Scenarios :
        /\ next_tid < MaxFill
        /\ Store(<<sid>>)
        /\ UNCHANGED <<agentVars, scnVars>>

(***************************************************************************)
(* ReplayBuffer.sample                                                     *)
(***************************************************************************)
\* Line 69: the length of each sub-buffer's window.
SamplesPerTrajectory == buffer_capacity \div num_scenario

\* A window that is one entry too long.
StartIdxOffByOne(num_trajectory, samples_per_trajectory) ==
    Max2(0, num_trajectory - samples_per_trajectory - 1)

\* Line 73: where the window of a sub-buffer of num_trajectory entries starts.
StartIdx(num_trajectory, samples_per_trajectory) ==
    Max2(0, num_trajectory - samples_per_trajectory)

\* Lines 70-81 for one of the six buffers: the windows of scenarios
\* s, s+1, ... concatenated.  The start index is taken from buffer_rewards.
RECURSIVE PreparedFrom(_, _)
PreparedFrom(buf, s) ==
    IF s >= num_scenario THEN <<>>
    ELSE SliceFrom(buf[s], StartIdx(Len(buffer_rewards[s]), SamplesPerTrajectory))
         \o PreparedFrom(buf, s + 1)

Prepared(buf) == PreparedFrom(buf, 0)

\* np.stack(prepared)[sample_index]: sample_index holds 0-based positions.
Take(prepared, sample_index) ==
    [j \in 1 .. Len(sample_index) |-> prepared[sample_index[j] + 1]]

\* Lines 85-95: the dict that sample builds.
BuildBatch(sample_index) ==
    [action  |-> IF buffer_mode = "train_agent"
                 THEN Take(Prepared(buffer_ego_actions), sample_index)
                 ELSE Take(Prepared(buffer_scenario_actions), sample_index),
     state   |-> Take(Prepared(buffer_obs), sample_index),
     n_state |-> Take(Prepared(buffer_next_obs), sample_index),
     reward  |-> Take(Prepared(buffer_rewards), sample_index),
     done    |-> Take(Prepared(buffer_dones), sample_index)]

\* Line 84: np.random.randint(0, high, size=batch_size) draws every index
\* from 0 .. high-1 and raises ValueError when high = 0.
RandintResults(high, size) == [1 .. size -> 0 .. (high - 1)]

\* What a call of sample can do: raise, or return one of the batches.
SampleResults(size) ==
    LET high == Len(Prepared(buffer_rewards)) IN
    IF high = 0
    THEN {[exc |-> "ValueError", batch |-> NoBatch]}
    ELSE {[exc |-> "none", batch |-> BuildBatch(sample_index)] :
              sample_index \in RandintResults(high, size)}

Sample(size) ==
    /\ last_call' = "sample"
    /\ last_batch_size' = size
    /\ \E r \in SampleResults(size) :
           /\ rb_exc' = r.exc
           /\ rb_exc_site' = RaiseSite("sample", r.exc)
           /\ batch' = r.batch
    /\ UNCHANGED <<num_scenario, buffer_capacity, buffer_mode, buffer_len,
                   buffer_ego_actions, buffer_scenario_actions, buffer_obs,
                   buffer_next_obs, buffer_rewards, buffer_dones,
                   next_tid, stored, rb_kind>>

SampleAction ==
    \E size \in 1 .. MaxBatchSize :
        /\ Sample(size)
        /\ UNCHANGED <<agentVars, scnVars>>

(***************************************************************************)
(* SAC.__init__                                                            *)
(***************************************************************************)
\* Lines 123-124: both switches are set in the constructor, not read from
\* the configuration.
use_suppression == TRUE
use_recovery == TRUE

\* Line 174: self.risk_thresh = 0.1, in tenths.
risk_thresh == 1

\* Line 128: self.lam = 2.0.
lam == 2

\* Line 337: the weight of the gate, torch.ones_like(...) * 10.0.
suppression_weight == 10

\* The options of the config dict that name the recovery mechanism; the
\* threshold is in tenths like risk_thresh.
ConfigOf(thresh, weight, recovery, suppression) ==
    [risk_threshold |-> thresh, suppression_weight |-> weight,
     use_recovery |-> recovery, use_suppression |-> suppression]

\* A config dict that asks for what the constructor sets anyway.
DefaultConfig == ConfigOf(risk_thresh, suppression_weight, use_recovery, use_suppression)

\* The eight networks of lines 148-156.
LiveNetworks ==
    {"policy_net", "value_net", "Q_net",
     "policy_recovery_net", "value_risk_net", "Q_risk_net"}

Networks == LiveNetworks \cup {"Target_value_net", "Target_value_risk_net"}

\* nn.Module.__init__ sets training = True.
AllTraining == [n \in Networks |-> TRUE]

\* A target that keeps an initialisation of its own.
CopyParamsSkipped(param) == param + 1

\* Lines 177-181: target_param.data.copy_(param.data).
CopyParams(param) == param

NoActions == <<>>

NoCall == [state |-> <<>>, deterministic |-> FALSE]

Params ==
    [policy_net |-> policy_net, value_net |-> value_net, Q_net |-> Q_net,
     Target_value_net |-> Target_value_net,
     value_risk_net |-> value_risk_net,
     policy_recovery_net |-> policy_recovery_net,
     Q_risk_net |-> Q_risk_net,
     Target_value_risk_net |-> Target_value_risk_net]

\* History only: what a SAC call found when it began.
Snapshot ==
    [P |-> Params, continue_episode |-> continue_episode,
     lists |-> CurrentLists, buffer_len |-> buffer_len]

NoEpisode == [given |-> FALSE, episode |-> 0]

\* Lines 148-156 and 177-181: the eight networks after construction.
\* Kaiming initialisation gives every network its own arbitrary parameters
\* (seed picks one such assignment); each target is copied from its live net.
InitParams(seed) ==
    [policy_net |-> seed, value_net |-> seed + 1, Q_net |-> seed + 2,
     Target_value_net |-> CopyParams(seed + 1),
     value_risk_net |-> seed + 3,
     policy_recovery_net |-> seed + 7,
     Q_risk_net |-> seed + 5,
     Target_value_risk_net |-> CopyParams(seed + 3)]

Episodes == 0 .. MaxEpisode

InitSAC(seed, bst, bs, ui, t, mid) ==
    /\ buffer_start_training = bst
    /\ batch_size = bs
    /\ update_iteration = ui
    /\ tau = t
    /\ model_id = mid
    /\ continue_episode = 0
    /\ policy_net = InitParams(seed).policy_net
    /\ value_net = InitParams(seed).value_net
    /\ Q_net = InitParams(seed).Q_net
    /\ Target_value_net = InitParams(seed).Target_value_net
    /\ value_risk_net = InitParams(seed).value_risk_net
    /\ policy_recovery_net = InitParams(seed).policy_recovery_net
    /\ Q_risk_net = InitParams(seed).Q_risk_net
    /\ Target_value_risk_net = InitParams(seed).Target_value_risk_net
    /\ last_call = "init"
    /\ agent_exc = "none"
    /\ ga_task_action = NoActions
    /\ ga_action = NoActions
    /\ ga_risk = NoActions
    /\ ga_recovery = NoActions
    /\ ga_call = NoCall
    /\ sample_calls = 0
    /\ train_calls = 0
    /\ warned = FALSE
    /\ op_episode = NoEpisode
    /\ saved_at = [e \in Episodes |-> [saved |-> FALSE, P |-> InitParams(seed)]]
    /\ pre_call = [P |-> InitParams(seed), continue_episode |-> 0,
                   lists |-> CurrentLists, buffer_len |-> buffer_len]
    /\ mode = "train"
    /\ training = AllTraining
    /\ op_mode = "train"
    /\ mode_msg = <<>>
    /\ train_log = <<>>

(***************************************************************************)
(* The networks.  A network is a fixed function of its parameters and of   *)
(* its input; actions take the two levels -1 and 1, risk estimates are in  *)
(* tenths.                                                                 *)
(***************************************************************************)
Actions == {0 - 1, 1}
Observations == 0 .. MaxObs

\* Actor.forward (lines 51-62): the mean of the action distribution.
Actor(p, s) == IF (p + s) % 2 = 0 THEN 0 - 1 ELSE 1

\* Q.forward (lines 100-113).
Qf(p, s, a) == ((p + 2 * s + a + 1) % 3) - 2

(***************************************************************************)
(* SAC.get_action                                                          *)
(***************************************************************************)
\* A sample that draws from the distribution in deterministic mode too.
PolicySamplesAlwaysDrawn(mu, deterministic) == [DOMAIN mu -> Actions]

\* The inner function sample (lines 210-218) on a batch of means: the means
\* themselves when deterministic, else tanh of a Normal draw per element.
PolicySamples(mu, deterministic) ==
    IF deterministic THEN {mu} ELSE [DOMAIN mu -> Actions]

\* Line 224: the gate reads risk.ravel()[0], the first element of the batch.
GateFires(risk) == risk[1] < 0 - risk_thresh

GetAction(state, deterministic) ==
    LET mu_task == [i \in DOMAIN state |-> Actor(policy_net, state[i])]
        mu_rec == [i \in DOMAIN state |-> Actor(policy_recovery_net, state[i])]
    IN  \E task_action \in PolicySamples(mu_task, deterministic) :
            LET risk == [i \in DOMAIN state |->
                            Qf(Q_risk_net, state[i], task_action[i])]
            IN  /\ ga_task_action' = task_action
                /\ ga_call' = [state |-> state, deterministic |-> deterministic]
                /\ ga_risk' = (IF use_recovery THEN risk ELSE NoActions)
                /\ IF use_recovery /\ GateFires(risk)
                   THEN \E rec \in PolicySamples(mu_rec, deterministic) :
                            /\ ga_recovery' = rec
                            /\ ga_action' = rec
                   ELSE /\ ga_recovery' = NoActions
                        /\ ga_action' = task_action
                /\ last_call' = "get_action"
                /\ agent_exc' = "none"
                /\ pre_call' = Snapshot
                /\ UNCHANGED <<rbVars, scnVars, cfgVars, liveVars, targetVars,
                               continue_episode, files, sample_calls,
                               train_calls, warned, saved_at, op_episode,
                               config, modeVars, train_log, criticVars>>

GetActionAction ==
    \E n \in 1 .. MaxN :
        \E state \in [1 .. n -> Observations], deterministic \in BOOLEAN :
            GetAction(state, deterministic)

(***************************************************************************)
(* SAC.set_mode                                                            *)
(***************************************************************************)
\* Lines 188-194 and 196-202: the networks whose flag set_mode sets.
Switched ==
    {"policy_net", "value_net", "Q_net"}
    \cup (IF use_recovery
          THEN {"policy_recovery_net", "value_risk_net", "Q_risk_net"}
          ELSE {})

\* A set_mode that treats every mode other than 'train' as 'eval'.
ModeSwitchElseEval(flags, m) ==
    [n \in Networks |-> IF n \in Switched THEN m = "train" ELSE flags[n]]

\* Lines 187-204: the training flags after set_mode(m).
ModeSwitch(flags, m) ==
    IF m = "train"
    THEN [n \in Networks |-> IF n \in Switched THEN TRUE ELSE flags[n]]
    ELSE IF m = "eval"
    THEN [n \in Networks |-> IF n \in Switched THEN FALSE ELSE flags[n]]
    ELSE flags

\* Line 204: raise ValueError(f'Unknown mode {mode}').
ModeRaises(m) == m # "train" /\ m # "eval"

SetMode(m) ==
    /\ mode' = m
    /\ training' = ModeSwitch(training, m)
    /\ agent_exc' = (IF ModeRaises(m) THEN "ValueError" ELSE "none")
    /\ mode_msg' = (IF ModeRaises(m) THEN <<"Unknown mode ", m>> ELSE <<>>)
    /\ op_mode' = m
    /\ last_call' = "set_mode"
    /\ pre_call' = Snapshot
    /\ ga_task_action' = NoActions
    /\ ga_action' = NoActions
    /\ ga_risk' = NoActions
    /\ ga_recovery' = NoActions
    /\ ga_call' = NoCall
    /\ UNCHANGED <<rbVars, scnVars, cfgVars, liveVars, targetVars,
                   continue_episode,
                   files, sample_calls, train_calls, warned, saved_at,
                   op_episode, config, train_log, criticVars>>

\* The strings a caller may hand over: the two modes and others.
ModeInputs == {"train", "eval", "test"}

SetModeAction == \E m \in ModeInputs : SetMode(m)

(***************************************************************************)
(* SAC.train                                                               *)
(***************************************************************************)
\* The keys train reads from the batch, in the order of lines 285-291.
TrainKeys ==
    <<"state", "task_action", "mixed_action", "reward", "risk", "n_state", "done">>

\* The batch of a buffer that follows the schema of the specification: the
\* transition's task action, executed action and risk signal are returned.
SchemaBatch(b) ==
    [state        |-> b.state,
     task_action  |-> b.action,
     mixed_action |-> [j \in DOMAIN b.reward |-> Comp(b.reward[j][1], "mixed_action")],
     reward       |-> b.reward,
     risk         |-> [j \in DOMAIN b.reward |-> Comp(b.reward[j][1], "risk")],
     n_state      |-> b.n_state,
     done         |-> b.done]

\* replay_buffer.sample(self.batch_size) of line 284, for the buffer class
\* the trainer uses.
BufferSample(size) ==
    IF rb_kind = "ReplayBuffer" THEN SampleResults(size)
    ELSE {[exc |-> r.exc,
           batch |-> IF r.exc = "none" THEN SchemaBatch(r.batch) ELSE NoBatch] :
              r \in SampleResults(size)}

\* Lines 285-291: batch[k] raises KeyError for a key the dict lacks.
ReadsFail(b) == \E i \in DOMAIN TrainKeys : TrainKeys[i] \notin DOMAIN b

\* optimizer.step() after zero_grad, backward and clipping.
OptStep(p) == p + 1

\* A soft update with the two weights exchanged.
SoftUpdateSwapped(target_param, param) ==
    (target_param * tau + param * (TauScale - tau)) \div TauScale

\* Lines 385 and 388: target*(1 - tau) + param*tau.
SoftUpdate(target_param, param) ==
    (target_param * (TauScale - tau) + param * tau) \div TauScale

\* Lines 351-388: the optimizer steps and the soft update of one iteration.
UpdateOnce(P) ==
    LET v == OptStep(P.value_net)
        vr == IF use_recovery THEN OptStep(P.value_risk_net) ELSE P.value_risk_net
    IN  [policy_net |-> OptStep(P.policy_net),
         value_net |-> v,
         Q_net |-> OptStep(P.Q_net),
         Target_value_net |-> SoftUpdate(P.Target_value_net, v),
         value_risk_net |-> vr,
         policy_recovery_net |->
             IF use_recovery THEN OptStep(P.policy_recovery_net)
             ELSE P.policy_recovery_net,
         Q_risk_net |-> IF use_recovery THEN OptStep(P.Q_risk_net) ELSE P.Q_risk_net,
         Target_value_risk_net |->
             IF use_recovery THEN SoftUpdate(P.Target_value_risk_net, vr)
             ELSE P.Target_value_risk_net]

\* Lines 351-381: the optimizers in the order they step, each with the loss
\* it backpropagates and the network whose gradients are clipped.
Optimizer(o, l, n) == [optimizer |-> o, loss |-> l, net |-> n]

OptimizerOrder ==
    <<Optimizer("value_optimizer", "V_loss", "value_net"),
      Optimizer("Q_optimizer", "Q_loss", "Q_net"),
      Optimizer("policy_optimizer", "pi_loss", "policy_net")>>
    \o (IF use_recovery
        THEN <<Optimizer("value_risk_optimizer", "V_risk_loss", "value_risk_net"),
               Optimizer("Q_risk_optimizer", "Q_risk_loss", "Q_risk_net"),
               Optimizer("policy_recovery_optimizer", "pi_recovery_loss",
                         "policy_recovery_net")>>
        ELSE <<>>)

Event(op, on) == [op |-> op, on |-> on]

\* The four statements of one optimizer, e.g. lines 351-354.
StepEvents(o) ==
    <<Event("zero_grad", o.optimizer), Event("backward", o.loss),
      Event("clip_grad_norm_", o.net), Event("step", o.optimizer)>>

RECURSIVE AllStepEvents(_)
AllStepEvents(i) ==
    IF i > Len(OptimizerOrder) THEN <<>>
    ELSE StepEvents(OptimizerOrder[i]) \o AllStepEvents(i + 1)

\* Line 284.
SampleEvent == Event("sample", "replay_buffer")

\* Lines 383-388.
SoftUpdateEvents ==
    <<Event("soft_update", "Target_value_net")>>
    \o (IF use_recovery THEN <<Event("soft_update", "Target_value_risk_net")>>
        ELSE <<>>)

\* One pass of the loop body, lines 284-388.
IterationEvents == <<SampleEvent>> \o AllStepEvents(1) \o SoftUpdateEvents

RECURSIVE Repeat(_, _)
Repeat(s, k) == IF k <= 0 THEN <<>> ELSE s \o Repeat(s, k - 1)

\* History only: what a train call did that called sample calls times and
\* ended with exc; a raising iteration ends at its sample or its reads.
TrainEvents(calls, exc) ==
    IF exc = "none" THEN Repeat(IterationEvents, calls)
    ELSE Repeat(IterationEvents, calls - 1) \o <<SampleEvent>>

\* The loop of lines 282-388 from iteration it: every way it can end.
RECURSIVE TrainLoop(_, _, _, _)
TrainLoop(P, it, last, calls) ==
    IF it > update_iteration
    THEN {[P |-> P, exc |-> "none", calls |-> calls, batch |-> last]}
    ELSE UNION {
            IF r.exc # "none"
            THEN {[P |-> P, exc |-> r.exc, calls |-> calls + 1, batch |-> r.batch]}
            ELSE IF ReadsFail(r.batch)
            THEN {[P |-> P, exc |-> "KeyError", calls |-> calls + 1, batch |-> r.batch]}
            ELSE TrainLoop(UpdateOnce(P), it + 1, r.batch, calls + 1) :
            r \in BufferSample(batch_size)}

\* A warm-up check that lets the last warm-up call through.
WarmingUpOffByOne == buffer_len + 1 < buffer_start_training

\* Line 279: the warm-up check.
WarmingUp == buffer_len < buffer_start_training

SetParams(P) ==
    /\ policy_net' = P.policy_net
    /\ value_net' = P.value_net
    /\ Q_net' = P.Q_net
    /\ Target_value_net' = P.Target_value_net
    /\ value_risk_net' = P.value_risk_net
    /\ policy_recovery_net' = P.policy_recovery_net
    /\ Q_risk_net' = P.Q_risk_net
    /\ Target_value_risk_net' = P.Target_value_risk_net

Train ==
    /\ train_calls < MaxTrain
    /\ train_calls' = train_calls + 1
    /\ last_call' = "train"
    /\ IF WarmingUp
       THEN /\ agent_exc' = "none"
            /\ sample_calls' = 0
            /\ train_log' = <<>>
            /\ UNCHANGED <<liveVars, targetVars, batch, rb_exc, rb_exc_site,
                           last_batch_size>>
       ELSE \E r \in TrainLoop(Params, 1, batch, 0) :
                /\ SetParams(r.P)
                /\ agent_exc' = r.exc
                /\ sample_calls' = r.calls
                /\ batch' = r.batch
                /\ train_log' = TrainEvents(r.calls, r.exc)
                /\ rb_exc' = (IF r.exc = "ValueError" THEN r.exc ELSE "none")
                /\ rb_exc_site' = (IF r.exc = "ValueError"
                                   THEN RaiseSite("sample", r.exc) ELSE "none")
                /\ last_batch_size' = batch_size
    /\ UNCHANGED <<num_scenario, buffer_capacity, buffer_mode, buffer_len,
                   buffer_ego_actions, buffer_scenario_actions, buffer_obs,
                   buffer_next_obs, buffer_rewards, buffer_dones,
                   next_tid, stored, rb_kind>>
    /\ pre_call' = Snapshot
    /\ ga_task_action' = NoActions
    /\ ga_action' = NoActions
    /\ ga_risk' = NoActions
    /\ ga_recovery' = NoActions
    /\ ga_call' = NoCall
    /\ UNCHANGED <<scnVars, cfgVars, continue_episode, files, warned,
                   saved_at, op_episode,
                   config, modeVars, criticVars>>

(***************************************************************************)
(* The targets train computes from a batch (lines 285-344), on one         *)
(* transition of the batch and on the network outputs for the rows of the  *)
(* batch.  Rewards, risks and values are integers, gamma is                *)
(* critic_in.gamma / GammaDen; the Q targets are numerators over           *)
(* Scale(gamma).  Network outputs of the policy target are in units of     *)
(* 1 / QDen, the gate is in quarters.                                      *)
(***************************************************************************)
\* torch.clamp(x, lo, hi).
Clamp(x, lo, hi) == IF x < lo THEN lo ELSE IF x > hi THEN hi ELSE x

\* Line 301: the 50. of 50. / (1. - self.gamma).
TerminalCap == 50

\* Line 339: the bounds 0.25 and 0.75 of the gate, in quarters.
GateLow == 1
GateHigh == 3

Scale(g) == GammaDen * (GammaDen - g)

QDen == 8 * suppression_weight

\* A reward that always carries the risk penalty.
ShapedRewardAlways(bn_r, bn_r_risk) == bn_r + lam * bn_r_risk

\* Lines 293-294: the risk penalty enters the reward only without recovery.
ShapedReward(bn_r, bn_r_risk) ==
    IF ~use_recovery THEN bn_r + lam * bn_r_risk ELSE bn_r

\* Lines 289 and 291: bn_r_risk is minus the stored risk, bn_d is 1 - done.
BnRRisk(in) == 0 - in.risk
BnD(in) == 1 - in.done

\* Lines 296-297: next_q_value = bn_r + bn_d * gamma * target_value.
NextQValue(in) ==
    ShapedReward(in.reward, BnRRisk(in)) * Scale(in.gamma)
    + BnD(in) * in.gamma * (GammaDen - in.gamma) * in.target_value

\* Line 301: clamp(bn_r_risk / (1 - gamma) * (1 - bn_d) - bn_r_risk,
\*                 0, 50 / (1 - gamma)).
MaxTerminal(bn_r_risk, bn_d, g) ==
    Clamp(bn_r_risk * GammaDen * GammaDen * (1 - bn_d) - bn_r_risk * Scale(g),
          0, TerminalCap * GammaDen * GammaDen)

\* Lines 299-302.
NextQRiskValue(in) ==
    BnRRisk(in) * Scale(in.gamma)
    + BnD(in) * in.gamma * (GammaDen - in.gamma) * in.target_value_risk
    + MaxTerminal(BnRRisk(in), BnD(in), in.gamma)

\* A gate that grows with the risk estimate instead of with its negation.
GateUnsigned(expected_new_Q_risk) ==
    Clamp((expected_new_Q_risk * suppression_weight * 2 * 4) \div QDen,
          GateLow, GateHigh)

\* Lines 337-339: gate = clamp(-expected_new_Q_risk * 10.0 * 2, 0.25, 0.75).
Gate(expected_new_Q_risk) ==
    Clamp(((0 - expected_new_Q_risk) * suppression_weight * 2 * 4) \div QDen,
          GateLow, GateHigh)

\* Lines 333-342 on one row: the policy target, in units of 1 / (4 * QDen).
LogPolicyTarget(row) ==
    LET log_policy_target == row.new_Q - row.value
        log_policy_recovery_target == row.new_Q_risk - row.value_risk
    IN  IF use_recovery /\ use_suppression
        THEN log_policy_target * (4 - Gate(row.new_Q_risk))
             + Gate(row.new_Q_risk) * log_policy_recovery_target
        ELSE log_policy_target * 4

NoTargets ==
    [computed |-> FALSE, next_q_value |-> 0, next_q_risk_value |-> 0,
     gate |-> <<>>, log_policy_target |-> <<>>]

Targets(in) ==
    [computed |-> TRUE,
     next_q_value |-> NextQValue(in),
     next_q_risk_value |-> IF use_recovery THEN NextQRiskValue(in) ELSE 0,
     gate |-> IF use_recovery /\ use_suppression
              THEN [i \in DOMAIN in.rows |-> Gate(in.rows[i].new_Q_risk)]
              ELSE <<>>,
     log_policy_target |-> [i \in DOMAIN in.rows |-> LogPolicyTarget(in.rows[i])]]

ComputeTargets ==
    /\ ~critic_out.computed
    /\ critic_out' = Targets(critic_in)
    /\ UNCHANGED <<rbVars, scnVars, cfgVars, liveVars, targetVars,
                   continue_episode,
                   files, agent_exc, gaVars, sample_calls, train_calls,
                   warned, saved_at, op_episode, pre_call, config, modeVars,
                   train_log, critic_in, last_call>>

\* The transitions and network outputs the targets are computed for.
Values == (0 - MaxValue) .. MaxValue
Risks == {60 * k : k \in (0 - MaxRisk) .. MaxRisk}
Rows ==
    [new_Q : 0 .. MaxValue, value : 0 .. MaxValue,
     new_Q_risk : (0 - MaxQ) .. MaxQ, value_risk : 0 .. MaxValue]

OneRow == [new_Q |-> 0, value |-> 0, new_Q_risk |-> 0, value_risk |-> 0]

CriticInput(reward, risk, done, v, vr, g, rows) ==
    [reward |-> reward, risk |-> risk, done |-> done, target_value |-> v,
     target_value_risk |-> vr, gamma |-> g, rows |-> rows]

NoCritic ==
    /\ critic_in = CriticInput(0, 0, 0, 0, 0, 0, <<OneRow>>)
    /\ critic_out = NoTargets

(***************************************************************************)
(* Checkpoint files.  A file name is the sequence of its dot-separated     *)
(* parts; a part is a text or a (possibly signed) string of digits.        *)
(***************************************************************************)
Text(s) == [text |-> s, digits |-> <<>>]

RECURSIVE Digits(_)
Digits(n) == IF n < 10 THEN <<n>> ELSE Digits(n \div 10) \o <<n % 10>>

RECURSIVE ZeroPad(_, _)
ZeroPad(ds, width) == IF Len(ds) >= width THEN ds ELSE ZeroPad(<<0>> \o ds, width)

\* f'{episode:04}': decimal, zero-padded to four characters, sign included.
Format04(episode) ==
    IF episode >= 0
    THEN [text |-> "", digits |-> ZeroPad(Digits(episode), 4)]
    ELSE [text |-> "-", digits |-> ZeroPad(Digits(0 - episode), 3)]

\* int(part) succeeds on digits with an optional sign.
IsInt(part) == part.text \in {"", "-"} /\ Len(part.digits) > 0

RECURSIVE DigitsValue(_)
DigitsValue(ds) ==
    IF Len(ds) = 0 THEN 0
    ELSE 10 * DigitsValue(SubSeq(ds, 1, Len(ds) - 1)) + ds[Len(ds)]

ParseInt(part) ==
    IF part.text = "-" THEN 0 - DigitsValue(part.digits) ELSE DigitsValue(part.digits)

\* Lines 402 and 416: f'model.sac.{self.model_id}.{episode:04}.torch'.
CheckpointName(mid, episode) ==
    <<Text("model"), Text("sac"), Text(mid), Format04(episode), Text("torch")>>

\* fnmatch(name, "*torch"): the name ends in torch.
Fnmatch(name) == name[Len(name)].text = "torch"

\* os.path.isfile(filepath): a file of that name directly in model_path.
IsFile(name) == \E f \in files : f.dir = "." /\ f.name = name

\* A load that ignores what the file holds.
FileDataIgnored(name) ==
    [policy_net |-> 0, value_net |-> 0, Q_net |-> 0, policy_recovery_net |-> 0,
     value_risk_net |-> 0, Q_risk_net |-> 0]

FileData(name) == (CHOOSE f \in files : f.dir = "." /\ f.name = name).data

(***************************************************************************)
(* SAC.save_model                                                          *)
(***************************************************************************)
\* A checkpoint that stores the value network under the key of the Q network.
SavedStatesMixedUp(P) ==
    [policy_net |-> P.policy_net, value_net |-> P.value_net, Q_net |-> P.value_net,
     policy_recovery_net |-> P.policy_recovery_net,
     value_risk_net |-> P.value_risk_net, Q_risk_net |-> P.Q_risk_net]

\* Lines 391-401: the dict that is written.
SavedStates(P) ==
    [policy_net |-> P.policy_net, value_net |-> P.value_net, Q_net |-> P.Q_net,
     policy_recovery_net |-> P.policy_recovery_net,
     value_risk_net |-> P.value_risk_net, Q_risk_net |-> P.Q_risk_net]

ResetReturned ==
    /\ ga_task_action' = NoActions
    /\ ga_action' = NoActions
    /\ ga_risk' = NoActions
    /\ ga_recovery' = NoActions
    /\ ga_call' = NoCall

SaveModel(episode) ==
    LET name == CheckpointName(model_id, episode) IN
    /\ files' = {f \in files : ~(f.dir = "." /\ f.name = name)}
                    \cup {[dir |-> ".", name |-> name, data |-> SavedStates(Params)]}
    /\ saved_at' = [saved_at EXCEPT ![episode] = [saved |-> TRUE, P |-> Params]]
    /\ last_call' = "save_model"
    /\ agent_exc' = "none"
    /\ op_episode' = [given |-> TRUE, episode |-> episode]
    /\ pre_call' = Snapshot
    /\ ResetReturned
    /\ UNCHANGED <<rbVars, scnVars, cfgVars, liveVars, targetVars,
                   continue_episode,
                   sample_calls, train_calls, warned,
                   config, modeVars, train_log, criticVars>>

SaveModelAction == \E episode \in Episodes : SaveModel(episode)

(***************************************************************************)
(* SAC.load_model                                                          *)
(***************************************************************************)
\* Lines 410-412: every file below model_path whose name ends in torch.
ScannedFiles == {f \in files : Fnmatch(f.name)}

\* Line 413: name.split(".")[-2] raises IndexError on a name without a dot,
\* int() raises ValueError on a part that is no number.
ScanErrors ==
    {"IndexError" : f \in {g \in ScannedFiles : Len(g.name) < 2}}
    \cup {"ValueError" : f \in {g \in ScannedFiles :
                                  Len(g.name) >= 2 /\ ~IsInt(g.name[Len(g.name) - 1])}}

SetMax(S) == CHOOSE m \in S : \A x \in S : x <= m

\* Lines 409-415: the highest episode number among the scanned names.
LatestEpisode ==
    SetMax({0 - 1} \cup {ParseInt(f.name[Len(f.name) - 1]) : f \in ScannedFiles})

\* Lines 416-430, with the episode settled.
LoadEpisode(episode) ==
    LET name == CheckpointName(model_id, episode) IN
    IF IsFile(name)
    THEN /\ policy_net' = FileData(name).policy_net
         /\ value_net' = FileData(name).value_net
         /\ Q_net' = FileData(name).Q_net
         /\ continue_episode' = episode
         /\ IF use_recovery
            THEN /\ policy_recovery_net' = FileData(name).policy_recovery_net
                 /\ value_risk_net' = FileData(name).value_risk_net
                 /\ Q_risk_net' = FileData(name).Q_risk_net
            ELSE UNCHANGED <<policy_recovery_net, value_risk_net, Q_risk_net>>
         /\ warned' = FALSE
    ELSE /\ warned' = TRUE
         /\ UNCHANGED <<liveVars, continue_episode>>

LoadModel(given, episode) ==
    /\ last_call' = "load_model"
    /\ op_episode' = [given |-> given, episode |-> IF given THEN episode ELSE 0]
    /\ pre_call' = Snapshot
    /\ ResetReturned
    /\ IF ~given /\ ScanErrors # {}
       THEN /\ agent_exc' \in ScanErrors
            /\ warned' = FALSE
            /\ UNCHANGED <<liveVars, continue_episode>>
       ELSE /\ agent_exc' = "none"
            /\ LoadEpisode(IF given THEN episode ELSE LatestEpisode)
    /\ UNCHANGED <<rbVars, scnVars, cfgVars, targetVars, files, sample_calls,
                   train_calls, saved_at,
                   config, modeVars, train_log, criticVars>>

LoadModelAction ==
    \/ \E episode \in Episodes : LoadModel(TRUE, episode)
    \/ LoadModel(FALSE, 0)

(***************************************************************************)
(* DynamicObjectCrossing (object_crash_vehicle.py): the placement of the   *)
(* walker in initialize_actors.  Distances are in tenths of a metre.  The  *)
(* map and the simulator decide how many lanes lie between the reference   *)
(* waypoint and the sidewalk and whether a placement raises RuntimeError.  *)
(***************************************************************************)
number_of_attempts == 20        \* self._number_of_attempts

StartDistance == 450            \* _start_distance = 45

LaneStep == 15                  \* _start_distance += 1.5

RetryStep == 4                  \* _start_distance += 0.4

InitDynamicObjectCrossing ==
    /\ spawn_attempted = 0
    /\ start_distance = StartDistance
    /\ transform = <<>>
    /\ spawn_pc = "constructed"
    /\ spawn_failed = 0
    /\ spawn_calls = 0

\* The call up to the retry loop: the walk over the lanes to the right.
InitializeActors ==
    /\ spawn_pc # "loop"
    /\ spawn_calls < MaxSpawnCalls
    /\ \E lanes \in 0 .. MaxLanes :
           start_distance' = StartDistance + LaneStep * lanes
    /\ spawn_pc' = "loop"
    /\ spawn_calls' = spawn_calls + 1
    /\ last_call' = "initialize_actors"
    /\ UNCHANGED <<spawn_attempted, transform, spawn_failed>>
    /\ UNCHANGED <<rbVars, agentVars, leadVars, convertVars, evalVars>>

\* One pass of the retry loop.  A pass that raises may have assigned
\* self.transform before it raised.
Placement ==
    /\ spawn_pc = "loop"
    /\ \E placed \in BOOLEAN :
           IF placed
           THEN /\ transform' = <<start_distance>>
                /\ spawn_pc' = "found"
                /\ UNCHANGED <<start_distance, spawn_attempted, spawn_failed>>
           ELSE /\ transform' \in {transform, <<start_distance>>}
                /\ start_distance' = start_distance + RetryStep
                /\ spawn_attempted' = spawn_attempted + 1
                /\ spawn_failed' = spawn_failed + 1
                /\ spawn_pc' = IF spawn_attempted' >= number_of_attempts
                               THEN "raised" ELSE "loop"
    /\ last_call' = "initialize_actors"
    /\ UNCHANGED spawn_calls
    /\ UNCHANGED <<rbVars, agentVars, leadVars, convertVars, evalVars>>

(***************************************************************************)
(* convert_actions of the three scenarios.  A raw action component k       *)
(* stands for k / RawDen, a converted component v for v / (2 * RawDen), so *)
(* that the halved scales and means are whole numbers.                     *)
(***************************************************************************)
RawValues == -MaxRaw .. MaxRaw

RawActions(n) == [1 .. n -> RawValues]

\* The number x in the unit of the converted components.
Converted(x) == x * 2 * RawDen

\* reinforce_continuous.constraint: x limited to [x_min, x_max].
constraint(x, x_min, x_max) ==
    IF x < x_min THEN x_min ELSE IF x > x_max THEN x_max ELSE x

ScaledFullRange(c, scale2, mean2) == 2 * c * scale2 + mean2 * RawDen

\* c * scale + mean, for scale = scale2 / 2 and mean = mean2 / 2.
Scaled(c, scale2, mean2) == c * scale2 + mean2 * RawDen

\* DynamicObjectCrossing.convert_actions: [y, yaw, dist].
ConvertActionsCrossing(a) ==
    LET yaw_scale == 60
        yaw_mean == 0
        d_min == 15
        d_max == 50
    IN  << Scaled(constraint(a[1], -RawDen, RawDen), 1, 1),
           Scaled(constraint(a[2], -RawDen, RawDen), 2 * yaw_scale, 2 * yaw_mean),
           Scaled(constraint(a[3], -RawDen, RawDen), d_max - d_min, d_max + d_min) >>

\* OtherLeadingVehicle.convert_actions: [x, y, yaw, dist], which
\* create_behavior reads as two locations and two speeds.
ConvertActionsLeading(a) ==
    LET x_min == 30
        x_max == 40
        y_min == 0
        y_max == 5
        yaw_min == 8
        yaw_max == 16
        d_min == 8
        d_max == 16
    IN  << Scaled(constraint(a[1], -RawDen, RawDen), x_max - x_min, x_max + x_min),
           Scaled(constraint(a[2], -RawDen, RawDen), y_max - y_min, y_max + y_min),
           Scaled(constraint(a[3], -RawDen, RawDen), yaw_max - yaw_min, yaw_max + yaw_min),
           Scaled(constraint(a[4], -RawDen, RawDen), d_max - d_min, d_max + d_min) >>

\* VehicleTurningRoute.convert_actions: [x, y, yaw, dist], the scale and the
\* mean of x and y being the caller's.
ConvertActionsTurning(a, x_scale, y_scale, x_mean, y_mean) ==
    LET yaw_min == 0
        yaw_max == 360
        d_min == 10
        d_max == 50
    IN  << Scaled(constraint(a[1], -RawDen, RawDen), 2 * x_scale, 2 * x_mean),
           Scaled(constraint(a[2], -RawDen, RawDen), 2 * y_scale, 2 * y_mean),
           Scaled(constraint(a[3], -RawDen, RawDen), yaw_max - yaw_min, yaw_max + yaw_min),
           Scaled(constraint(a[4], -RawDen, RawDen), d_max - d_min, d_max + d_min) >>

\* The raw vector a of the scenario policy, not yet converted.
InitConvertActions(a) ==
    /\ scenario_init_action = a
    /\ actions = <<>>
    /\ scenario_class = "none"

\* DynamicObjectCrossing.create_behavior.
CrossingCreateBehavior ==
    /\ actions' = ConvertActionsCrossing(scenario_init_action)
    /\ UNCHANGED scenario_init_action
    /\ scenario_class' = "DynamicObjectCrossing"
    /\ last_call' = "create_behavior"
    /\ UNCHANGED <<rbVars, agentVars, spawnVars, leadVars, evalVars>>

\* OtherLeadingVehicle.create_behavior.
LeadingCreateBehavior ==
    /\ actions' = ConvertActionsLeading(scenario_init_action)
    /\ UNCHANGED scenario_init_action
    /\ scenario_class' = "OtherLeadingVehicle"
    /\ last_call' = "create_behavior"
    /\ UNCHANGED <<rbVars, agentVars, spawnVars, leadVars, evalVars>>

\* The centre and the extent of the junction that
\* VehicleTurningRoute.initialize_actors computes from the map.
Junctions == {[x_scale |-> 0, y_scale |-> 8, x_mean |-> -10, y_mean |-> 25]}

\* VehicleTurningRoute.create_behavior keeps the raw vector;
\* initialize_actors converts it.
TurningInitializeActors ==
    /\ \E j \in Junctions :
           actions' = ConvertActionsTurning(scenario_init_action, j.x_scale,
                                            j.y_scale, j.x_mean, j.y_mean)
    /\ UNCHANGED scenario_init_action
    /\ scenario_class' = "VehicleTurningRoute"
    /\ last_call' = "initialize_actors"
    /\ UNCHANGED <<rbVars, agentVars, spawnVars, leadVars, evalVars>>

(***************************************************************************)
(* OtherLeadingVehicle (other_leading_vehicle.py): the lead vehicle        *)
(* (actor 0) slows down once it is far enough from where it was spawned.   *)
(* Speeds are in m/s and distances in metres; the simulator decides where  *)
(* the lead vehicle is at each call.                                       *)
(***************************************************************************)
dece_distance == 5              \* self.dece_distance

dece_target_speed == 2          \* self.dece_target_speed

\* Speeds of the range convert_actions maps the raw speeds to.
LeadSpeeds == {8, 12, 16}

Distances == 0 .. MaxDistance

ScenarioActions == {"None", "action"}

InitOtherLeadingVehicle(v1, v2) ==
    /\ need_decelerate = FALSE
    /\ other_actors = 0
    /\ other_actor_speed = <<v1, v2>>
    /\ go_straight = <<>>
    /\ cur_distance = 0
    /\ lead_exc = "none"
    /\ lead_calls = 0

\* OtherLeadingVehicle.initialize_actors: two transforms, two vehicles.
LeadingInitializeActors ==
    /\ other_actors = 0
    /\ other_actors' = 2
    /\ last_call' = "initialize_actors"
    /\ UNCHANGED <<need_decelerate, other_actor_speed, go_straight,
                   cur_distance, lead_exc, lead_calls>>
    /\ UNCHANGED <<rbVars, agentVars, spawnVars, convertVars, evalVars>>

NeedDecelerateUnlatched(need, distance) == distance > dece_distance

\* self.need_decelerate after the test of cur_distance.
NeedDecelerate(need, distance) == need \/ distance > dece_distance

\* The speed update_behavior hands to go_straight for actor i (from 1).
CommandedSpeed(i, need) ==
    IF i = 1 /\ need THEN dece_target_speed ELSE other_actor_speed[i]

\* update_behavior(scenario_action) with the lead vehicle at the given
\* distance from other_actor_transform[0].
UpdateBehavior(scenario_action, distance) ==
    /\ lead_calls < MaxLeadCalls
    /\ lead_calls' = lead_calls + 1
    /\ last_call' = "update_behavior"
    /\ IF scenario_action # "None"
       THEN /\ lead_exc' = "AssertionError"
            /\ go_straight' = <<>>
            /\ UNCHANGED <<need_decelerate, cur_distance>>
       ELSE IF other_actors = 0
       THEN /\ lead_exc' = "IndexError"
            /\ go_straight' = <<>>
            /\ UNCHANGED <<need_decelerate, cur_distance>>
       ELSE /\ lead_exc' = "none"
            /\ cur_distance' = distance
            /\ need_decelerate' = NeedDecelerate(need_decelerate, distance)
            /\ go_straight' = [i \in 1 .. other_actors |->
                                   CommandedSpeed(i, need_decelerate')]
    /\ UNCHANGED <<other_actors, other_actor_speed>>
    /\ UNCHANGED <<rbVars, agentVars, spawnVars, convertVars, evalVars>>

UpdateBehaviorAction ==
    \E scenario_action \in ScenarioActions, distance \in Distances :
        UpdateBehavior(scenario_action, distance)

(***************************************************************************)
(* CarlaRunner.eval (carla_runner.py): batches of scenarios are sampled    *)
(* from the data loader and run to their end.  The data loader is its      *)
(* length, the env is the set of the scenario ids that are not done; the   *)
(* sampler decides the size of a batch and the env decides the rewards of  *)
(* a step and which scenarios the step ends.                               *)
(***************************************************************************)
Rewards == {0, 1}

\* The scenario ids of a batch of n scenarios: range(num_sampled_scenario).
BatchIds(n) == 0 .. (n - 1)

\* The ids of a set, in ascending order.
RECURSIVE Ascending(_)
Ascending(S) ==
    IF S = {} THEN <<>>
    ELSE LET m == CHOOSE x \in S : \A y \in S : x <= y
         IN  <<m>> \o Ascending(S \ {m})

\* The info records of a step: one per scenario that was running.
Infos(running) ==
    [i \in 1 .. Cardinality(running) |->
        [scenario_id |-> Ascending(running)[i]]]

InitEval(n) ==
    /\ data_loader = n
    /\ eval_pc = "while"
    /\ num_sampled_scenario = 0
    /\ env_running = {}
    /\ rewards_list = <<>>
    /\ env_rewards = <<>>
    /\ env_calls = <<>>

\* The test of the outer loop holds: data_loader.sampler() and env.reset.
EvalReset ==
    /\ eval_pc = "while"
    /\ data_loader > 0
    /\ \E n \in 1 .. Min2(MaxScenario, data_loader) :
           /\ data_loader' = data_loader - n
           /\ num_sampled_scenario' = n
           /\ env_running' = BatchIds(n)
           /\ rewards_list' = [s_i \in BatchIds(n) |-> <<>>]
           /\ env_rewards' = [s_i \in BatchIds(n) |-> <<>>]
    /\ env_calls' = <<"reset">>
    /\ eval_pc' = "step"
    /\ last_call' = "eval"
    /\ UNCHANGED <<rbVars, agentVars, spawnVars, leadVars, convertVars>>

RECURSIVE AccumulateByPosition(_, _, _, _)
AccumulateByPosition(lists, infos, rewards, reward_idx) ==
    IF reward_idx >= Len(infos) THEN lists
    ELSE AccumulateByPosition(
             [lists EXCEPT ![reward_idx] = Append(@, rewards[reward_idx + 1])],
             infos, rewards, reward_idx + 1)

\* The loop over infos from reward_idx (from 0) on.
RECURSIVE Accumulate(_, _, _, _)
Accumulate(lists, infos, rewards, reward_idx) ==
    IF reward_idx >= Len(infos) THEN lists
    ELSE Accumulate(
             [lists EXCEPT ![infos[reward_idx + 1].scenario_id] =
                               Append(@, rewards[reward_idx + 1])],
             infos, rewards, reward_idx + 1)

\* Not all scenarios are done: one env.step and its rewards.
EvalStep ==
    /\ eval_pc = "step"
    /\ env_running # {}
    /\ \E rewards \in [1 .. Cardinality(env_running) -> Rewards],
          ended \in SUBSET env_running :
           /\ Len(env_calls) >= MaxEnvSteps => ended = env_running
           /\ env_running' = env_running \ ended
           /\ rewards_list' =
                  Accumulate(rewards_list, Infos(env_running), rewards, 0)
           /\ env_rewards' =
                  [s \in DOMAIN env_rewards |->
                      IF s \in env_running
                      THEN Append(env_rewards[s],
                                  rewards[CHOOSE i \in 1 .. Cardinality(env_running) :
                                              Ascending(env_running)[i] = s])
                      ELSE env_rewards[s]]
    /\ env_calls' = Append(env_calls, "step")
    /\ last_call' = "eval"
    /\ UNCHANGED <<data_loader, eval_pc, num_sampled_scenario>>
    /\ UNCHANGED <<rbVars, agentVars, spawnVars, leadVars, convertVars>>

\* env.all_scenario_done() holds: the inner loop is left and env.clean_up()
\* runs.
EvalCleanUp ==
    /\ eval_pc = "step"
    /\ env_running = {}
    /\ env_calls' = Append(env_calls, "clean_up")
    /\ eval_pc' = "while"
    /\ last_call' = "eval"
    /\ UNCHANGED <<data_loader, num_sampled_scenario, env_running,
                   rewards_list, env_rewards>>
    /\ UNCHANGED <<rbVars, agentVars, spawnVars, leadVars, convertVars>>

\* The test of the outer loop fails: eval returns.
EvalReturn ==
    /\ eval_pc = "while"
    /\ data_loader = 0
    /\ eval_pc' = "returned"
    /\ last_call' = "eval"
    /\ UNCHANGED <<data_loader, num_sampled_scenario, env_running,
                   rewards_list, env_rewards, env_calls>>
    /\ UNCHANGED <<rbVars, agentVars, spawnVars, leadVars, convertVars>>

\* The scenario objects and the runner as their construction leaves them.
InitScenarios ==
    /\ InitDynamicObjectCrossing
    /\ InitOtherLeadingVehicle(12, 12)
    /\ InitConvertActions(<<>>)
    /\ InitEval(0)

(***************************************************************************)
(* The replay buffer on its own: any construction, then store and sample   *)
(* calls in any order.                                                     *)
(***************************************************************************)
BufferModes == {"train_agent", "train_scenario"}

BufferKinds == {"ReplayBuffer", "SchemaBuffer"}

InitRB ==
    \E n \in 1 .. MaxScenario, cap \in 1 .. MaxCapacity, m \in BufferModes :
        /\ InitBuffer(n, cap, m)
        /\ rb_kind = "ReplayBuffer"
        /\ InitSAC(0, 0, 1, 1, 1, "A")
        /\ files = {}
        /\ config = DefaultConfig
        /\ InitScenarios
        /\ NoCritic

NextRB == StoreAction \/ SampleAction

SpecBuffer == InitRB /\ [][NextRB]_vars

(***************************************************************************)
(* The training step on a buffer that the environment loop fills: any      *)
(* warm-up threshold and iteration count, then store and train calls.      *)
(***************************************************************************)
InitTrain ==
    \E bst \in 0 .. MaxStartTraining, ui \in 1 .. MaxUpdateIteration,
       kind \in BufferKinds :
        /\ InitBuffer(1, 1, "train_agent")
        /\ rb_kind = kind
        /\ InitSAC(0, bst, 1, ui, 1, "A")
        /\ files = {}
        /\ config = DefaultConfig
        /\ InitScenarios
        /\ NoCritic

NextTrain == StoreAction \/ Train

SpecTrain == InitTrain /\ [][NextTrain]_vars

(***************************************************************************)
(* Acting: get_action calls on agents with any parameters.                 *)
(***************************************************************************)
InitAct ==
    \E seed \in 0 .. MaxSeed :
        /\ InitBuffer(1, 1, "train_agent")
        /\ rb_kind = "SchemaBuffer"
        /\ InitSAC(seed, 1, 1, 1, 1, "A")
        /\ files = {}
        /\ config = DefaultConfig
        /\ InitScenarios
        /\ NoCritic

NextAct == GetActionAction

SpecAct == InitAct /\ [][NextAct]_vars

(***************************************************************************)
(* Checkpoints: save_model and load_model between train calls, in a model  *)
(* directory that may hold files this agent did not write.                 *)
(***************************************************************************)
\* A checkpoint of another model id, a checkpoint of this model id in a
\* sub-directory, and a file that is no checkpoint.
ForeignFiles ==
    {[dir |-> ".", name |-> CheckpointName("B", MaxEpisode + 1),
      data |-> SavedStates(InitParams(7))],
     [dir |-> "sub", name |-> CheckpointName("A", MaxEpisode + 1),
      data |-> SavedStates(InitParams(8))],
     [dir |-> ".", name |-> <<Text("best"), Text("torch")>>,
      data |-> SavedStates(InitParams(9))]}

InitCkpt ==
    \E dir \in {{}} \cup {{f} : f \in ForeignFiles} :
        /\ InitBuffer(1, 1, "train_agent")
        /\ rb_kind = "SchemaBuffer"
        /\ InitSAC(0, 1, 1, 1, 1, "A")
        /\ files = dir
        /\ config = DefaultConfig
        /\ InitScenarios
        /\ NoCritic

NextCkpt == StoreStep \/ Train \/ SaveModelAction \/ LoadModelAction

SpecCkpt == InitCkpt /\ [][NextCkpt]_vars

(***************************************************************************)
(* The whole agent: every method of SAC in any order on a buffer the       *)
(* environment loop fills, for tau = 0, tau = 1 and a tau in between, and  *)
(* for one and for several iterations per train call.                      *)
(***************************************************************************)
InitAgent ==
    \E t \in {0, 1, TauScale}, ui \in {1, MaxUpdateIteration} :
        /\ InitBuffer(1, 1, "train_agent")
        /\ rb_kind = "SchemaBuffer"
        /\ InitSAC(0, 1, 1, ui, t, "A")
        /\ files = {}
        /\ config = DefaultConfig
        /\ InitScenarios
        /\ NoCritic

\* get_action on one observation.
GetActionStep == \E deterministic \in BOOLEAN : GetAction(<<0>>, deterministic)

\* Checkpoints of the first episode only.
SaveModelStep == SaveModel(0)

LoadModelStep == \E given \in BOOLEAN : LoadModel(given, 0)

NextAgent ==
    \/ StoreStep
    \/ Train
    \/ SaveModelStep
    \/ LoadModelStep
    \/ GetActionStep
    \/ SetModeAction

SpecAgent == InitAgent /\ [][NextAgent]_vars

(***************************************************************************)
(* Acting under any configuration of the recovery mechanism.               *)
(***************************************************************************)
ConfigInputs ==
    {ConfigOf(thresh, suppression_weight, recovery, suppression) :
        thresh \in 0 .. MaxThreshold, recovery \in BOOLEAN,
        suppression \in BOOLEAN}

InitConfig ==
    \E seed \in 0 .. MaxSeed, c \in ConfigInputs :
        /\ InitBuffer(1, 1, "train_agent")
        /\ rb_kind = "SchemaBuffer"
        /\ InitSAC(seed, 1, 1, 1, 1, "A")
        /\ files = {}
        /\ config = c
        /\ InitScenarios
        /\ NoCritic

NextConfig == GetActionAction

SpecConfig == InitConfig /\ [][NextConfig]_vars

(***************************************************************************)
(* The Q targets of train on any transition, and the policy target on any  *)
(* batch of two rows.                                                      *)
(***************************************************************************)
InitCritic ==
    \E reward \in Values, risk \in Risks, done \in {0, 1}, v \in Values,
       vr \in Values, g \in 0 .. (GammaDen - 1) :
        /\ InitBuffer(1, 1, "train_agent")
        /\ rb_kind = "SchemaBuffer"
        /\ InitSAC(0, 1, 1, 1, 1, "A")
        /\ files = {}
        /\ config = DefaultConfig
        /\ InitScenarios
        /\ critic_in = CriticInput(reward, risk, done, v, vr, g, <<OneRow>>)
        /\ critic_out = NoTargets

NextCritic == ComputeTargets

SpecCritic == InitCritic /\ [][NextCritic]_vars

InitGate ==
    \E r1 \in Rows, r2 \in Rows :
        /\ InitBuffer(1, 1, "train_agent")
        /\ rb_kind = "SchemaBuffer"
        /\ InitSAC(0, 1, 1, 1, 1, "A")
        /\ files = {}
        /\ config = DefaultConfig
        /\ InitScenarios
        /\ critic_in = CriticInput(0, 0, 0, 0, 0, 0, <<r1, r2>>)
        /\ critic_out = NoTargets

NextGate == ComputeTargets

SpecGate == InitGate /\ [][NextGate]_vars

(***************************************************************************)
(* The scenarios and the runner, next to an agent that is not called.      *)
(***************************************************************************)
IdleAgent ==
    /\ InitBuffer(1, 1, "train_agent")
    /\ rb_kind = "SchemaBuffer"
    /\ InitSAC(0, 1, 1, 1, 1, "A")
    /\ files = {}
    /\ config = DefaultConfig
    /\ NoCritic

\* A DynamicObjectCrossing whose initialize_actors is called again and again.
InitSpawn ==
    /\ IdleAgent
    /\ InitScenarios

NextSpawn == InitializeActors \/ Placement

SpecSpawn == InitSpawn /\ [][NextSpawn]_vars

\* An OtherLeadingVehicle of any two configured speeds.
InitLead ==
    \E v1 \in LeadSpeeds, v2 \in LeadSpeeds :
        /\ IdleAgent
        /\ InitDynamicObjectCrossing
        /\ InitOtherLeadingVehicle(v1, v2)
        /\ InitConvertActions(<<>>)
        /\ InitEval(0)

NextLead == LeadingInitializeActors \/ UpdateBehaviorAction

SpecLead == InitLead /\ [][NextLead]_vars

\* convert_actions of each scenario on any raw action vector (the first
\* three components are those of a DynamicObjectCrossing).
InitConvert ==
    \E a \in RawActions(4) :
        /\ IdleAgent
        /\ InitDynamicObjectCrossing
        /\ InitOtherLeadingVehicle(12, 12)
        /\ InitConvertActions(a)
        /\ InitEval(0)

NextConvert ==
    \/ CrossingCreateBehavior
    \/ LeadingCreateBehavior
    \/ TurningInitializeActors

SpecConvert == InitConvert /\ [][NextConvert]_vars

\* eval on a data loader of any length.
InitRunner ==
    \E n \in 0 .. MaxLoader :
        /\ IdleAgent
        /\ InitDynamicObjectCrossing
        /\ InitOtherLeadingVehicle(12, 12)
        /\ InitConvertActions(<<>>)
        /\ InitEval(n)

NextEval == EvalReset \/ EvalStep \/ EvalCleanUp \/ EvalReturn

SpecEval == InitRunner /\ [][NextEval]_vars

(***************************************************************************)
(* Properties of the replay buffer (checked under SpecBuffer).             *)
(***************************************************************************)
\* The ids of the transitions stored for scenario s, oldest first (from the
\* history of store calls, not from the buffer's lists).
RECURSIVE TidsOfFrom(_, _)
TidsOfFrom(s, i) ==
    IF i > Len(stored) THEN <<>>
    ELSE (IF stored[i][1] = s THEN <<stored[i][2]>> ELSE <<>>) \o TidsOfFrom(s, i + 1)

TidsOf(s) == TidsOfFrom(s, 1)

ListOf(s, kind) == [j \in 1 .. Len(TidsOf(s)) |-> Comp(TidsOf(s)[j], kind)]

HoldsTransition == \E s \in Scenarios : Len(buffer_rewards[s]) > 0

\* C3 (as claimed): whenever sample(batch_size) is called on a buffer that
\* holds at least one stored transition, it returns normally and every array
\* of the batch it returns has exactly batch_size rows.
C3_SampleAlwaysReturnsBatchSizeRows ==
    (last_call = "sample" /\ HoldsTransition) =>
        /\ rb_exc = "none"
        /\ DOMAIN batch # {}
        /\ \A k \in DOMAIN batch : Len(batch[k]) = last_batch_size

\* The transitions of scenario s that lie in its window: the most recent
\* floor(buffer_capacity / num_scenario) stored for s.
WindowTids(s) ==
    LET tids == TidsOf(s)
        w == buffer_capacity \div num_scenario
    IN  {tids[j] : j \in {i \in 1 .. Len(tids) : i > Len(tids) - w}}

AllWindowTids == UNION {WindowTids(s) : s \in Scenarios}

\* C4: every row of a returned batch is (a component of) a transition in the
\* window of its scenario, all five arrays of a row belong to the same
\* transition, and every transition in the window of any scenario is
\* returned by some outcome of the random draw.
C4_SampleReturnsExactlyTheWindows ==
    /\ (last_call = "sample" /\ rb_exc = "none") =>
           \A j \in 1 .. last_batch_size :
               /\ batch.reward[j][1] \in AllWindowTids
               /\ batch.state[j][1] = batch.reward[j][1]
               /\ batch.n_state[j][1] = batch.reward[j][1]
               /\ batch.done[j][1] = batch.reward[j][1]
               /\ batch.action[j][1] = batch.reward[j][1]
    /\ \A t \in AllWindowTids :
           \E sample_index \in RandintResults(Len(Prepared(buffer_rewards)), 1) :
               BuildBatch(sample_index).reward[1][1] = t
    /\ AllWindowTids = {} => Len(Prepared(buffer_rewards)) = 0

\* Witness of C4: a batch was returned while a scenario held more
\* transitions than its (non-empty) window.
C4_Witness ==
    /\ last_call = "sample"
    /\ rb_exc = "none"
    /\ \E s \in Scenarios :
           /\ Len(buffer_rewards[s]) > SamplesPerTrajectory
           /\ SamplesPerTrajectory >= 1
    /\ \E s \in Scenarios : \E t \in WindowTids(s) :
           s # 0 /\ batch.reward[1][1] = t

\* C5: after any sequence of store calls the six lists of each scenario hold
\* exactly the transitions stored for that scenario id, in store order.
C5_StoreKeepsPerScenarioOrder ==
    \A s \in Scenarios :
        /\ buffer_ego_actions[s] = ListOf(s, "ego_action")
        /\ buffer_scenario_actions[s] = ListOf(s, "scenario_action")
        /\ buffer_obs[s] = ListOf(s, "obs")
        /\ buffer_next_obs[s] = ListOf(s, "next_obs")
        /\ buffer_rewards[s] = ListOf(s, "reward")
        /\ buffer_dones[s] = ListOf(s, "done")

\* Witness of C5: store calls have interleaved two scenarios, one of them
\* holding at least two transitions.
C5_Witness ==
    /\ last_call = "store"
    /\ num_scenario >= 2
    /\ Len(buffer_rewards[0]) >= 2
    /\ Len(buffer_rewards[1]) >= 1
    /\ buffer_rewards[1][1][1] < buffer_rewards[0][2][1]

(***************************************************************************)
(* Properties of get_action (checked under SpecAct).                       *)
(***************************************************************************)
\* C1 (as claimed): get_action gates each element of the batch on its own:
\* where the risk estimate of element i is below -risk_thresh the executed
\* action i is the recovery sample of element i, elsewhere it is task action i.
C1_GateIsPerElement ==
    last_call = "get_action" =>
        \A i \in DOMAIN ga_action :
            IF ga_risk[i] < 0 - risk_thresh
            THEN ga_recovery # NoActions /\ ga_action[i] = ga_recovery[i]
            ELSE ga_action[i] = ga_task_action[i]

(***************************************************************************)
(* Properties of train (checked under SpecTrain).                          *)
(***************************************************************************)
\* C2: a train call made while buffer_len < buffer_start_training returns
\* without calling sample and leaves the eight parameter sets and the
\* buffer as they were.
C2_TrainIsNoOpWhileWarmingUp ==
    (last_call = "train" /\ buffer_len < buffer_start_training) =>
        /\ sample_calls = 0
        /\ agent_exc = "none"
        /\ Params = pre_call.P
        /\ CurrentLists = pre_call.lists
        /\ buffer_len = pre_call.buffer_len

\* Witness of C2: a warm-up call on a buffer that already holds a
\* transition train could have sampled.
C2_Witness ==
    /\ last_call = "train"
    /\ buffer_len < buffer_start_training
    /\ HoldsTransition
    /\ Len(Prepared(buffer_rewards)) > 0

\* C6 (as claimed): the batch of ReplayBuffer.sample carries every key that
\* train reads, so a train call past the warm-up check consumes it.
C6_BufferBatchFeedsTrain ==
    (last_call = "train" /\ rb_kind = "ReplayBuffer"
        /\ sample_calls > 0 /\ rb_exc = "none") =>
        /\ \A i \in DOMAIN TrainKeys : TrainKeys[i] \in DOMAIN batch
        /\ agent_exc = "none"

(***************************************************************************)
(* Properties of the checkpoints (checked under SpecCkpt).                 *)
(***************************************************************************)
LoadedSaved ==
    /\ last_call = "load_model"
    /\ op_episode.given
    /\ saved_at[op_episode.episode].saved

\* C7: load_model(e) after save_model(e), whatever was trained in between,
\* gives the six optimized parameter groups the values they had at the save.
C7_CheckpointRoundTrip ==
    LoadedSaved =>
        LET S == saved_at[op_episode.episode].P IN
        /\ agent_exc = "none"
        /\ policy_net = S.policy_net
        /\ value_net = S.value_net
        /\ Q_net = S.Q_net
        /\ policy_recovery_net = S.policy_recovery_net
        /\ value_risk_net = S.value_risk_net
        /\ Q_risk_net = S.Q_risk_net

\* Witness of C7: the load replaced parameters that training had changed
\* since the save.
C7_Witness ==
    /\ LoadedSaved
    /\ train_calls > 0
    /\ pre_call.P.policy_net # policy_net
    /\ pre_call.P.Q_risk_net # Q_risk_net

\* C8 (as claimed): after save_model(e), training and load_model(e) the two
\* target networks too have the values they had at the save.
C8_CheckpointRestoresTargets ==
    LoadedSaved =>
        /\ Target_value_net = saved_at[op_episode.episode].P.Target_value_net
        /\ Target_value_risk_net = saved_at[op_episode.episode].P.Target_value_risk_net

\* The checkpoints of this agent's model id in model_path.
OwnCheckpoints ==
    {f \in files :
        /\ f.dir = "."
        /\ Len(f.name) = 5
        /\ f.name[1] = Text("model")
        /\ f.name[2] = Text("sac")
        /\ f.name[3] = Text(model_id)
        /\ IsInt(f.name[4])
        /\ f.name[5] = Text("torch")}

HighestOwn ==
    CHOOSE f \in OwnCheckpoints :
        \A g \in OwnCheckpoints : ParseInt(g.name[4]) <= ParseInt(f.name[4])

\* C9 (as claimed): load_model() without an episode, in a directory that
\* holds a checkpoint of this model id, loads the highest-numbered checkpoint
\* of this model id and sets continue_episode to its number (stated for the
\* calls that return).
C9_LoadsLatestOwnCheckpoint ==
    (/\ last_call = "load_model"
     /\ ~op_episode.given
     /\ OwnCheckpoints # {}
     /\ agent_exc = "none") =>
        /\ continue_episode = ParseInt(HighestOwn.name[4])
        /\ SavedStates(Params) = HighestOwn.data

\* C10 (as claimed): a load_model call that finds no checkpoint of
\* (model_id, episode) returns normally, logs the warning and leaves the
\* parameters and continue_episode as they were.
C10_LoadNeverFailsHard ==
    (/\ last_call = "load_model"
     /\ IF op_episode.given
        THEN ~IsFile(CheckpointName(model_id, op_episode.episode))
        ELSE OwnCheckpoints = {}) =>
        /\ agent_exc = "none"
        /\ warned
        /\ Params = pre_call.P
        /\ continue_episode = pre_call.continue_episode

(***************************************************************************)
(* C11: set_mode(m) with m neither 'train' nor 'eval' raises a ValueError  *)
(* whose message names m and switches no network; set_mode('train') puts   *)
(* all six live networks in training behaviour, set_mode('eval') all six   *)
(* in evaluation behaviour.                                                *)
(***************************************************************************)
C11_SetModeSwitchesAllOrRaises ==
    [][last_call' = "set_mode" =>
          IF op_mode' \notin {"train", "eval"}
          THEN /\ agent_exc' = "ValueError"
               /\ mode_msg' = <<"Unknown mode ", op_mode'>>
               /\ training' = training
          ELSE /\ agent_exc' = "none"
               /\ \A n \in LiveNetworks : training'[n] = (op_mode' = "train")]_vars

\* An unknown mode was refused while the networks were in evaluation
\* behaviour, and they still are.
C11_Witness ==
    /\ last_call = "set_mode"
    /\ op_mode = "test"
    /\ agent_exc = "ValueError"
    /\ \A n \in LiveNetworks : ~training[n]

(***************************************************************************)
(* C12: the soft update computes target' = target*(1-tau) + live*tau.  A   *)
(* train call with tau = 0 leaves both target networks as they were, and   *)
(* with tau = 1 (TauScale in the model's units) each target equals its     *)
(* live value network, as the optimizer step left it, after the            *)
(* iterations of a train call.                                             *)
(***************************************************************************)
C12_SoftUpdateBlendsTargetAndLive ==
    /\ (last_call = "train" /\ tau = 0) =>
           /\ Target_value_net = pre_call.P.Target_value_net
           /\ Target_value_risk_net = pre_call.P.Target_value_risk_net
    /\ (last_call = "train" /\ agent_exc = "none" /\ sample_calls > 0) =>
           /\ tau = TauScale =>
                  /\ Target_value_net = value_net
                  /\ Target_value_risk_net = value_risk_net
           /\ sample_calls = 1 =>
                  /\ Target_value_net =
                         (pre_call.P.Target_value_net * (TauScale - tau)
                          + value_net * tau) \div TauScale
                  /\ Target_value_risk_net =
                         (pre_call.P.Target_value_risk_net * (TauScale - tau)
                          + value_risk_net * tau) \div TauScale
    /\ tau = TauScale =>
           /\ UpdateOnce(Params).Target_value_net = UpdateOnce(Params).value_net
           /\ UpdateOnce(Params).Target_value_risk_net =
                  UpdateOnce(Params).value_risk_net

\* With tau = 1 a train call began with targets that differed from the live
\* value networks (a checkpoint had been loaded) and ended with them equal.
C12_Witness ==
    /\ last_call = "train"
    /\ agent_exc = "none"
    /\ sample_calls > 0
    /\ tau = TauScale
    /\ pre_call.P.Target_value_net # pre_call.P.value_net
    /\ pre_call.P.Target_value_risk_net # pre_call.P.value_risk_net
    /\ Target_value_net = value_net
    /\ Target_value_risk_net = value_risk_net

(***************************************************************************)
(* C13: right after construction each target network equals its live value *)
(* network; afterwards the targets change only in the soft update of       *)
(* train: get_action, set_mode, save_model and load_model leave them as    *)
(* they are, and so do the optimizer steps of a train call whose soft      *)
(* update keeps the target (tau = 0).                                      *)
(***************************************************************************)
C13_TargetsChangeOnlyInSoftUpdate ==
    /\ [](last_call = "init" =>
              /\ Target_value_net = value_net
              /\ Target_value_risk_net = value_risk_net)
    /\ [][last_call' # "train" => UNCHANGED targetVars]_vars
    /\ [][(last_call' = "train" /\ tau = 0) => UNCHANGED targetVars]_vars

\* load_model replaced the live value networks and kept the targets.
C13_Witness ==
    /\ last_call = "load_model"
    /\ value_net # pre_call.P.value_net
    /\ value_risk_net # pre_call.P.value_risk_net
    /\ Target_value_net = pre_call.P.Target_value_net
    /\ Target_value_risk_net = pre_call.P.Target_value_risk_net
    /\ Target_value_net # value_net

(***************************************************************************)
(* C14: a train call that passes the warm-up check runs exactly            *)
(* update_iteration iterations; each samples one batch, then the value, Q, *)
(* policy, risk-value, risk-Q and recovery-policy optimizers step once     *)
(* each, in that order, each step after zero_grad, the backward pass of    *)
(* its own loss and the clipping of its own network; both targets are      *)
(* soft-updated after the six steps.                                       *)
(***************************************************************************)
C14_Steps ==
    <<<<"value_optimizer", "V_loss", "value_net">>,
      <<"Q_optimizer", "Q_loss", "Q_net">>,
      <<"policy_optimizer", "pi_loss", "policy_net">>,
      <<"value_risk_optimizer", "V_risk_loss", "value_risk_net">>,
      <<"Q_risk_optimizer", "Q_risk_loss", "Q_risk_net">>,
      <<"policy_recovery_optimizer", "pi_recovery_loss", "policy_recovery_net">>>>

C14_IterationAt(log, base) ==
    /\ log[base + 1] = [op |-> "sample", on |-> "replay_buffer"]
    /\ \A j \in 1 .. 6 :
           LET b == base + 1 + 4 * (j - 1) IN
           /\ log[b + 1] = [op |-> "zero_grad", on |-> C14_Steps[j][1]]
           /\ log[b + 2] = [op |-> "backward", on |-> C14_Steps[j][2]]
           /\ log[b + 3] = [op |-> "clip_grad_norm_", on |-> C14_Steps[j][3]]
           /\ log[b + 4] = [op |-> "step", on |-> C14_Steps[j][1]]
    /\ log[base + 26] = [op |-> "soft_update", on |-> "Target_value_net"]
    /\ log[base + 27] = [op |-> "soft_update", on |-> "Target_value_risk_net"]

C14_TrainRunsEveryIteration ==
    (last_call = "train" /\ pre_call.buffer_len >= buffer_start_training) =>
        /\ Len(train_log) = 27 * update_iteration
        /\ \A k \in 0 .. (update_iteration - 1) :
               C14_IterationAt(train_log, 27 * k)

(***************************************************************************)
(* C15: the Q-loss target of a sampled transition is                       *)
(* reward + (1 - done) * gamma * V_target(next_state): the reward alone    *)
(* for a terminal transition, the reward plus gamma times the target value *)
(* of the next state otherwise; the risk signal does not enter it.         *)
(* (Both sides are numerators over Scale(gamma).)                          *)
(***************************************************************************)
C15_QTargetIsRewardPlusDiscountedValue ==
    critic_out.computed =>
        LET in == critic_in
            discounted == in.gamma * (GammaDen - in.gamma) * in.target_value
        IN  /\ critic_out.next_q_value =
                   in.reward * Scale(in.gamma) + (1 - in.done) * discounted
            /\ in.done = 1 => critic_out.next_q_value = in.reward * Scale(in.gamma)
            /\ in.done = 0 =>
                   critic_out.next_q_value = in.reward * Scale(in.gamma) + discounted

\* The target of a non-terminal transition with a risk signal and a next
\* state of non-zero value.
C15_Witness ==
    /\ critic_out.computed
    /\ critic_in.done = 0
    /\ critic_in.risk # 0
    /\ critic_in.gamma > 0
    /\ critic_in.target_value # 0
    /\ critic_out.next_q_value # critic_in.reward * Scale(critic_in.gamma)

(***************************************************************************)
(* C16: with recovery enabled the risk-Q target of a sampled transition is *)
(* risk + (1 - done) * gamma * V_risk_target(next_state)                   *)
(* + clamp(risk / (1 - gamma) * (1 - done) - risk, 0, 50 / (1 - gamma)),   *)
(* risk being the stored risk value and done the stored done flag.         *)
(* (Both sides are numerators over Scale(gamma).)                          *)
(***************************************************************************)
C16_RiskTargetOfStoredRiskAndDone ==
    critic_out.computed =>
        LET in == critic_in IN
        critic_out.next_q_risk_value =
            in.risk * Scale(in.gamma)
            + (1 - in.done) * in.gamma * (GammaDen - in.gamma) * in.target_value_risk
            + Clamp(in.risk * GammaDen * GammaDen * (1 - in.done)
                        - in.risk * Scale(in.gamma),
                    0, TerminalCap * GammaDen * GammaDen)

(***************************************************************************)
(* C17: with suppression enabled the gate is                               *)
(* clamp(-new_Q_risk * weight * 2, 0.25, 0.75): it lies in [0.25, 0.75],   *)
(* it does not decrease when new_Q_risk decreases, and the policy target   *)
(* is policy_target * (1 - gate) + gate * recovery_target.  (The gate is   *)
(* in quarters and new_Q_risk in units of 1/80, so that                    *)
(* -new_Q_risk * 10 * 2 is -new_Q_risk quarters.)                          *)
(***************************************************************************)
C17_GateIsBoundedAndMonotone ==
    critic_out.computed =>
        LET rows == critic_in.rows
            gate == critic_out.gate
        IN  /\ DOMAIN gate = DOMAIN rows
            /\ \A i \in DOMAIN rows :
                   /\ gate[i] = Clamp(0 - rows[i].new_Q_risk, 1, 3)
                   /\ 1 <= gate[i] /\ gate[i] <= 3
                   /\ critic_out.log_policy_target[i] =
                          (rows[i].new_Q - rows[i].value) * (4 - gate[i])
                          + gate[i] * (rows[i].new_Q_risk - rows[i].value_risk)
            /\ \A i, j \in DOMAIN rows :
                   rows[i].new_Q_risk <= rows[j].new_Q_risk => gate[i] >= gate[j]

\* A batch whose first row is gated at the lower bound and whose second
\* row, of a lower risk estimate, strictly inside the bounds.
C17_Witness ==
    /\ critic_out.computed
    /\ critic_out.gate[1] = 1
    /\ critic_out.gate[2] = 2
    /\ critic_in.rows[2].new_Q_risk < critic_in.rows[1].new_Q_risk
    /\ critic_out.log_policy_target[1] # critic_out.log_policy_target[2]

(***************************************************************************)
(* C18: the configuration options control the agent: the threshold of the  *)
(* gate of get_action is the configured risk_threshold, and with           *)
(* use_recovery configured false get_action executes the task action.      *)
(***************************************************************************)
C18_ConfigControlsRecovery ==
    last_call = "get_action" =>
        /\ ~config.use_recovery => ga_action = ga_task_action
        /\ config.use_recovery =>
               (ga_recovery # NoActions <=> ga_risk[1] < 0 - config.risk_threshold)

(***************************************************************************)
(* C19: sampling from an empty pool is guarded: sample, and a train call   *)
(* that reaches it, raise a dedicated error before any array operation on  *)
(* the empty pool, and leave the buffer and every parameter unchanged.     *)
(***************************************************************************)
C19_EmptyPoolIsGuarded ==
    /\ (last_call = "sample" /\ Len(Prepared(buffer_rewards)) = 0) =>
           /\ rb_exc # "none"
           /\ rb_exc_site = "guard"
    /\ (last_call = "train" /\ sample_calls > 0
            /\ Len(Prepared(buffer_rewards)) = 0) =>
           /\ agent_exc # "none"
           /\ rb_exc_site = "guard"
           /\ Params = pre_call.P
           /\ CurrentLists = pre_call.lists
           /\ buffer_len = pre_call.buffer_len

(***************************************************************************)
(* C20: only training changes parameters.  get_action, in either mode and  *)
(* whether or not the recovery branch is taken, and save_model leave every *)
(* parameter group, both targets and continue_episode unchanged;           *)
(* load_model changes the parameter groups only by replacing them with the *)
(* contents of the checkpoint it loads.                                    *)
(***************************************************************************)
C20_OnlyTrainAndLoadChangeParameters ==
    [][/\ last_call' \notin {"train", "load_model"} =>
              UNCHANGED <<liveVars, targetVars, continue_episode>>
       /\ last_call' = "load_model" =>
              /\ UNCHANGED targetVars
              /\ \/ UNCHANGED <<liveVars, continue_episode>>
                 \/ \E f \in files :
                        /\ f.dir = "."
                        /\ f.name = CheckpointName(model_id, continue_episode')
                        /\ policy_net' = f.data.policy_net
                        /\ value_net' = f.data.value_net
                        /\ Q_net' = f.data.Q_net
                        /\ policy_recovery_net' = f.data.policy_recovery_net
                        /\ value_risk_net' = f.data.value_risk_net
                        /\ Q_risk_net' = f.data.Q_risk_net]_vars

\* A get_action call of a trained agent that took the recovery branch.
C20_Witness ==
    /\ last_call = "get_action"
    /\ ga_recovery # NoActions
    /\ ga_action = ga_recovery
    /\ train_calls > 0
    /\ policy_net # InitParams(0).policy_net
    /\ \E f \in files : f.data.policy_net # policy_net

(***************************************************************************)
(* C21: in deterministic mode get_action samples on neither path: the task *)
(* action is the mean of the actor as it is, the recovery action, when the *)
(* gate fires, the mean of the recovery actor as it is, and two            *)
(* deterministic calls with the same state and the same parameters return  *)
(* the same pair (task action, executed action).                           *)
(***************************************************************************)
C21_DeterministicGetActionReturnsMeans ==
    /\ [](( last_call = "get_action" /\ ga_call.deterministic) =>
              LET state == ga_call.state IN
              /\ ga_task_action =
                     [i \in DOMAIN state |-> Actor(policy_net, state[i])]
              /\ IF ga_recovery # NoActions
                 THEN /\ ga_recovery =
                             [i \in DOMAIN state |->
                                 Actor(policy_recovery_net, state[i])]
                      /\ ga_action = ga_recovery
                 ELSE ga_action = ga_task_action)
    /\ [][(/\ last_call = "get_action" /\ ga_call.deterministic
           /\ last_call' = "get_action" /\ ga_call'.deterministic
           /\ ga_call'.state = ga_call.state
           /\ UNCHANGED <<liveVars, targetVars>>) =>
              UNCHANGED <<ga_task_action, ga_action>>]_vars

\* A deterministic call on two observations in which the gate fired and the
\* executed action differs from the task action.
C21_Witness ==
    /\ last_call = "get_action"
    /\ ga_call.deterministic
    /\ Len(ga_call.state) = 2
    /\ ga_recovery # NoActions
    /\ ga_action # ga_task_action

(***************************************************************************)
(* C22: the buffer never evicts and sample never mutates: a sample call    *)
(* leaves buffer_len and every per-scenario list as they are, and over any *)
(* sequence of store and sample calls no per-scenario list gets shorter,   *)
(* also when it is longer than buffer_capacity / num_scenario.             *)
(***************************************************************************)
C22_Lists ==
    <<buffer_ego_actions, buffer_scenario_actions, buffer_obs,
      buffer_next_obs, buffer_rewards, buffer_dones>>

C22_NeverEvictsNeverMutates ==
    /\ [][last_call' = "sample" => UNCHANGED <<buffer_len, C22_Lists>>]_vars
    /\ [][\A k \in DOMAIN C22_Lists : \A s \in Scenarios :
              /\ Len(C22_Lists[k][s]) <= Len(C22_Lists[k][s]')
              /\ SubSeq(C22_Lists[k][s]', 1, Len(C22_Lists[k][s]))
                     = C22_Lists[k][s]]_vars

\* After a sample call a list is longer than the sampling window and still
\* holds its oldest transition.
C22_Witness ==
    /\ last_call = "sample"
    /\ rb_exc = "none"
    /\ \E s \in Scenarios :
           /\ Len(buffer_rewards[s]) > SamplesPerTrajectory
           /\ SamplesPerTrajectory > 0
           /\ ~(\E j \in DOMAIN batch.reward : batch.reward[j] = buffer_rewards[s][1])

(***************************************************************************)
(* C23: after any sequence of store calls, also calls that raise on a      *)
(* scenario id that is no valid index, buffer_len is the number of         *)
(* transitions held in the per-scenario lists, and the six lists of each   *)
(* scenario have the same length.                                          *)
(***************************************************************************)
RECURSIVE C23_HeldFrom(_)
C23_HeldFrom(s) ==
    IF s >= num_scenario THEN 0
    ELSE Len(buffer_rewards[s]) + C23_HeldFrom(s + 1)

C23_BufferLenCountsHeldTransitions ==
    /\ buffer_len = C23_HeldFrom(0)
    /\ \A s \in Scenarios :
           /\ Len(buffer_ego_actions[s]) = Len(buffer_rewards[s])
           /\ Len(buffer_scenario_actions[s]) = Len(buffer_rewards[s])
           /\ Len(buffer_obs[s]) = Len(buffer_rewards[s])
           /\ Len(buffer_next_obs[s]) = Len(buffer_rewards[s])
           /\ Len(buffer_dones[s]) = Len(buffer_rewards[s])

(***************************************************************************)
(* C24: the mode attribute of the agent is always 'train' or 'eval': it is *)
(* 'train' after construction, the requested mode after a set_mode call    *)
(* that succeeds, and a set_mode call that raises on an invalid string     *)
(* does not leave that string in it.                                       *)
(***************************************************************************)
C24_ModeIsTrainOrEval ==
    /\ mode \in {"train", "eval"}
    /\ last_call = "init" => mode = "train"
    /\ (last_call = "set_mode" /\ agent_exc = "none") => mode = op_mode
    /\ (last_call = "set_mode" /\ agent_exc # "none") => mode # op_mode

(***************************************************************************)
(* Properties of DynamicObjectCrossing (checked under SpecSpawn).          *)
(***************************************************************************)
\* C25: the retry loop of initialize_actors is bounded by the attempt
\* counter: the error is raised again only once the counter has reached
\* _number_of_attempts, and as the counter is never reset a scenario object
\* makes at most _number_of_attempts (20) failed placements over all its
\* initialize_actors calls.
C25_AtMostTwentyFailedAttempts ==
    /\ spawn_pc = "raised" => spawn_attempted >= number_of_attempts
    /\ spawn_failed = spawn_attempted
    /\ spawn_failed <= number_of_attempts

(***************************************************************************)
(* Properties of OtherLeadingVehicle (checked under SpecLead).             *)
(***************************************************************************)
\* C26: need_decelerate is a latch.  It is false until update_behavior is
\* called, a call that passes its assertion sets it if and only if it was
\* set before or the lead vehicle is farther than dece_distance from its
\* spawn transform, and nothing clears it; such a call commands actor 0 at
\* dece_target_speed if and only if need_decelerate holds in that call, and
\* every other actor at its configured speed.
C26_NeedDecelerateIsALatch ==
    /\ [](lead_calls = 0 => ~need_decelerate)
    /\ [][need_decelerate => need_decelerate']_vars
    /\ [][(lead_calls' = lead_calls + 1 /\ lead_exc' = "none") =>
              /\ need_decelerate' =
                     (need_decelerate \/ cur_distance' > dece_distance)
              /\ Len(go_straight') = other_actors
              /\ (go_straight'[1] = dece_target_speed) <=> need_decelerate'
              /\ ~need_decelerate' => go_straight'[1] = other_actor_speed[1]
              /\ \A i \in 2 .. other_actors :
                     go_straight'[i] = other_actor_speed[i]]_vars
    /\ [][(lead_calls' = lead_calls + 1 /\ lead_exc' # "none") =>
              /\ need_decelerate' = need_decelerate
              /\ go_straight' = <<>>]_vars

\* The lead vehicle is within dece_distance again and is still commanded at
\* dece_target_speed, the second vehicle at its own speed.
C26_Witness ==
    /\ last_call = "update_behavior"
    /\ lead_exc = "none"
    /\ lead_calls >= 2
    /\ cur_distance <= dece_distance
    /\ need_decelerate
    /\ go_straight = <<dece_target_speed, other_actor_speed[2]>>

(***************************************************************************)
(* Properties of convert_actions (checked under SpecConvert).              *)
(***************************************************************************)
\* Component i of the converted actions lies in [lo, hi], is lo where the
\* raw component is -1 and hi where it is +1.
C27_InRange(i, lo, hi) ==
    /\ Converted(lo) <= actions[i]
    /\ actions[i] <= Converted(hi)
    /\ scenario_init_action[i] = -RawDen => actions[i] = Converted(lo)
    /\ scenario_init_action[i] = RawDen => actions[i] = Converted(hi)

\* C27: convert_actions maps every raw action vector, also one with
\* components outside [-1, 1], into the declared ranges, and reaches each
\* end of a range at the raw values -1 and +1: DynamicObjectCrossing y in
\* [0, 1], yaw in [-60, 60], trigger distance in [15, 50];
\* OtherLeadingVehicle x in [30, 40], y in [0, 5], both speeds in [8, 16];
\* VehicleTurningRoute yaw in [0, 360], distance in [10, 50].
C27_ConvertedActionsAreInRange ==
    /\ scenario_class = "DynamicObjectCrossing" =>
           /\ Len(actions) = 3
           /\ C27_InRange(1, 0, 1)
           /\ C27_InRange(2, -60, 60)
           /\ C27_InRange(3, 15, 50)
    /\ scenario_class = "OtherLeadingVehicle" =>
           /\ Len(actions) = 4
           /\ C27_InRange(1, 30, 40)
           /\ C27_InRange(2, 0, 5)
           /\ C27_InRange(3, 8, 16)
           /\ C27_InRange(4, 8, 16)
    /\ scenario_class = "VehicleTurningRoute" =>
           /\ Len(actions) = 4
           /\ C27_InRange(3, 0, 360)
           /\ C27_InRange(4, 10, 50)

\* A raw vector with a component below -1 and one above +1, converted to
\* the two ends of the ranges.
C27_Witness ==
    /\ scenario_class = "OtherLeadingVehicle"
    /\ scenario_init_action[1] < -RawDen
    /\ scenario_init_action[3] > RawDen
    /\ actions[1] = Converted(30)
    /\ actions[3] = Converted(16)

(***************************************************************************)
(* Properties of CarlaRunner.eval (checked under SpecEval).                *)
(***************************************************************************)
\* C28: eval resets the env for every sampled batch, steps it only while a
\* scenario of the batch is not done, and cleans it up exactly once, as soon
\* as all are done and before the next batch is sampled; the rewards of a
\* step go to the reward lists of the scenario ids of its info records; eval
\* returns exactly when the data loader is empty.
C28_EvalRunsEachBatchToItsEnd ==
    /\ [](/\ eval_pc = "step" =>
                /\ Len(env_calls) >= 1
                /\ env_calls[1] = "reset"
                /\ \A i \in 2 .. Len(env_calls) : env_calls[i] = "step"
          /\ (eval_pc # "step" /\ env_calls # <<>>) =>
                /\ Len(env_calls) >= 2
                /\ env_calls[1] = "reset"
                /\ env_calls[Len(env_calls)] = "clean_up"
                /\ \A i \in 2 .. (Len(env_calls) - 1) : env_calls[i] = "step"
                /\ env_running = {}
          /\ rewards_list = env_rewards
          /\ eval_pc = "returned" => data_loader = 0)
    /\ [][/\ env_calls' = Append(env_calls, "step") => env_running # {}
          /\ env_calls' = Append(env_calls, "clean_up") => env_running = {}
          /\ (eval_pc = "step" /\ env_running = {}) =>
                 env_calls' \in {env_calls, Append(env_calls, "clean_up")}
          /\ (eval_pc = "while" /\ eval_pc' = "step") =>
                 /\ data_loader > 0
                 /\ env_calls' = <<"reset">>
                 /\ env_running' = DOMAIN rewards_list'
          /\ (eval_pc = "while" /\ data_loader > 0) =>
                 eval_pc' \in {"while", "step"}
          /\ eval_pc = "returned" => eval_pc' = "returned"]_vars

\* A batch of two scenarios, the first of which ended after one step: the
\* second step's reward went to the list of the second scenario only.
C28_Witness ==
    /\ eval_pc = "while"
    /\ num_sampled_scenario = 2
    /\ env_calls = <<"reset", "step", "step", "clean_up">>
    /\ Len(rewards_list[0]) = 1
    /\ Len(rewards_list[1]) = 2

====
